---- MODULE Spec2Model ----
(***************************************************************************)
(* antigravity-openai-adapter: the OpenAI -> Anthropic request converter,  *)
(* the Anthropic -> OpenAI stream-event converter, and the express         *)
(* handlers that drive them.                                               *)
(*                                                                         *)
(* Data conventions.  A JavaScript string is a sequence of one-character   *)
(* strings (so that concatenation, joins and emptiness are computed, not   *)
(* assumed); tags the code only compares with literals (role, type) are    *)
(* TLA+ strings.  A JavaScript object is a record whose DOMAIN is the set  *)
(* of keys it has.  A value that may be a string, an array or neither      *)
(* (message content) is a record tagged with what typeof / Array.isArray   *)
(* answer for it.                                                          *)
(***************************************************************************)
EXTENDS Integers, Sequences, FiniteSets, TLC

VARIABLES
    \* --- request translation (convertOpenAIToAnthropic) ---
    openaiRequest,      \* the request body handed to the converter
    reqNow,             \* Date.now() during the conversion
    anthropicRequest,   \* <<>> before the call, <<result>> after it
    \* --- stream translation (convertStreamEvent driven event by event) ---
    state,              \* the threaded state object
    fed,                \* the upstream events handed to the converter so far
    events,             \* every chunk returned so far, in order
    perEvent,           \* the number of chunks each fed event returned
    \* --- the server (app.post('/v1/chat/completions') and its two handlers) ---
    pc,                 \* where the handler is: idle, fetch, fetch_stream, read,
                        \*   returned (it returned), caught (a catch block ran)
    headersSent,        \* res.headersSent
    statusCode,         \* res.statusCode
    jsonBody,           \* <<>>, or <<body>> once res.json(body) was called
    written,            \* the frames given to res.write, in order
    ended,              \* res.end() was called (res.json ends the response too)
    buffer,             \* the undecoded remainder kept between reads
    streamState,        \* the exchange's state object
    upstreamStatus,     \* response.status of the upstream answer, 0 before it
    inflight,           \* what the upstream has sent and the reader has not read
    upSent,             \* how many SSE frames the upstream has sent
    upClosed,           \* the upstream has ended its body
    clientOpen,         \* the client connection is still open
    consumed,           \* history: everything reader.read() has handed over so far
    splitAt,            \* history: where in it a read last ended inside a separator
    \* --- one upstream message, answered whole or as a stream ---
    upstreamMessage,    \* the upstream message, as the upstream holds it
    pieces,             \* how many fragments the upstream cuts a tool input into
    openaiResponse,     \* <<>>, or <<result>> once convertAnthropicToOpenAI returned
    \* --- two streaming exchanges in flight at once ---
    exchanges,          \* per exchange: its state object, events, chunks and draw
    \* --- the /v1 middleware and the endpoints behind it ---
    config,             \* config.apiKey
    req,                \* the request: its path, headers and body
    \* --- GET /v1/models and its cache ---
    modelsCache,        \* the module variable: data (<<>> for null) and timestamp
    clock,              \* what Date.now() answers at this moment
    ticks,              \* how many times the clock has advanced
    handlers,           \* per request: where its handler is, its `now`, its answer
    upstreamCalls,      \* how many times fetch was called
    lastFetch           \* history: the fetch whose result was stored last

reqVars == <<openaiRequest, reqNow, anthropicRequest>>
cvtVars == <<state, fed, events, perEvent>>
srvVars == <<pc, headersSent, statusCode, jsonBody, written, ended, buffer, streamState,
             upstreamStatus, inflight, upSent, upClosed, clientOpen, consumed, splitAt>>
msgVars == <<upstreamMessage, pieces, openaiResponse>>
pairVars == <<exchanges>>
gateVars == <<config, req>>
modelsVars == <<modelsCache, clock, ticks, handlers, upstreamCalls, lastFetch>>
\* what the request translation and the chat-completions handlers leave alone
restVars == <<cvtVars, msgVars, pairVars, gateVars, modelsVars>>
vars == <<reqVars, cvtVars, srvVars, msgVars, pairVars, gateVars, modelsVars>>

(***************************************************************************)
(* Bounds                                                                  *)
(***************************************************************************)
MaxMsgs == 3        \* longest message list of a request
MaxEvents == 3      \* longest upstream event sequence of one exchange
MaxClock == 2       \* Date.now() answers a value in 1..MaxClock
MaxFrames == 2      \* most SSE frames the upstream sends in one exchange

(***************************************************************************)
(* Strings and objects                                                     *)
(***************************************************************************)
EmptyObj == [k \in {} |-> k]
Has(obj, key) == key \in DOMAIN obj

RECURSIVE Join(_, _)
\* Array.prototype.join
Join(strs, sep) ==
    IF Len(strs) = 0 THEN <<>>
    ELSE IF Len(strs) = 1 THEN strs[1]
    ELSE strs[1] \o sep \o Join(Tail(strs), sep)

RECURSIVE Concat(_)
Concat(strs) == IF Len(strs) = 0 THEN <<>> ELSE strs[1] \o Concat(Tail(strs))

Digit(n) == <<"0", "1", "2", "3", "4", "5", "6", "7", "8", "9">>[n + 1]
RECURSIVE NumToStr(_)
\* String(n) for a natural number
NumToStr(n) == IF n < 10 THEN <<Digit(n)>> ELSE NumToStr(n \div 10) \o <<Digit(n % 10)>>

\* typeof v === 'string', Array.isArray(v), and the values themselves
Str(s) == [t |-> "string", v |-> s]
Arr(a) == [t |-> "array", v |-> a]
Null == [t |-> "null", v |-> <<>>]
IsString(c) == c.t = "string"
IsArray(c) == c.t = "array"
\* JavaScript truthiness of a content value
Truthy(c) == (c.t = "string" /\ c.v # <<>>) \/ c.t = "array"

Min(S) == CHOOSE x \in S : \A y \in S : x <= y

(***************************************************************************)
(* JSON.parse, on the argument strings the requests of this model carry:   *)
(* the JSON grammar restricted to an object with no member or with one     *)
(* member whose key and value are one-character strings.  The argument     *)
(* strings below are chosen so that this restriction decides validity as   *)
(* JSON does.  [ok |-> FALSE] is the SyntaxError.                          *)
(***************************************************************************)
JSONparse(s) ==
    IF s = <<"{", "}">> THEN [ok |-> TRUE, value |-> EmptyObj]
    ELSE IF /\ Len(s) = 9
            /\ s[1] = "{" /\ s[2] = "\"" /\ s[4] = "\"" /\ s[5] = ":"
            /\ s[6] = "\"" /\ s[8] = "\"" /\ s[9] = "}"
            /\ s[3] \notin {"\"", "\\"} /\ s[7] \notin {"\"", "\\"}
         THEN [ok |-> TRUE, value |-> [k \in {s[3]} |-> <<s[7]>>]]
    ELSE [ok |-> FALSE, value |-> EmptyObj]

(***************************************************************************)
(* openai-to-anthropic.js                                                  *)
(***************************************************************************)
DataPrefix == <<"d", "a", "t", "a", ":">>
Base64Marker == <<";", "b", "a", "s", "e", "6", "4", ",">>

\* imageUrl.match(/^data:([^;]+);base64,(.+)$/): <<>> for null, else <<[mime, data]>>
base64Match(imageUrl) ==
    LET n == Len(imageUrl)
        semis == {i \in 6..n : imageUrl[i] = ";"}
    IN  IF n < 5 \/ SubSeq(imageUrl, 1, 5) # DataPrefix \/ semis = {} THEN <<>>
        ELSE LET p == Min(semis) IN
             IF /\ p > 6
                /\ p + 8 <= n
                /\ SubSeq(imageUrl, p, p + 7) = Base64Marker
                /\ \A i \in (p + 8)..n : imageUrl[i] # "\n"
             THEN <<[mime |-> SubSeq(imageUrl, 6, p - 1), data |-> SubSeq(imageUrl, p + 8, n)]>>
             ELSE <<>>

convertUserPart(part) ==
    IF part.type = "text" THEN [type |-> "text", text |-> part.text]
    ELSE IF part.type = "image_url" THEN
        LET imageUrl == IF Has(part, "image_url") /\ Has(part.image_url, "url")
                        THEN part.image_url.url ELSE <<>>
            m == base64Match(imageUrl)
        IN  IF m # <<>>
            THEN [type |-> "image",
                  source |-> [type |-> "base64", media_type |-> m[1].mime, data |-> m[1].data]]
            ELSE [type |-> "image", source |-> [type |-> "url", url |-> imageUrl]]
    ELSE part

convertUserContent(content) ==
    IF IsString(content) THEN content
    ELSE IF IsArray(content)
         THEN Arr([i \in 1..Len(content.v) |-> convertUserPart(content.v[i])])
    ELSE content

\* the catch block leaving args = {} instead of wrapping the string
parseArguments_EmptyOnError(fn) ==
    IF ~Has(fn, "arguments") THEN EmptyObj
    ELSE LET r == JSONparse(fn.arguments) IN
         IF r.ok THEN r.value ELSE EmptyObj

\* the try/catch around JSON.parse of one call's arguments
parseArguments(fn) ==
    IF ~Has(fn, "arguments") THEN EmptyObj
    ELSE LET r == JSONparse(fn.arguments) IN
         IF r.ok THEN r.value ELSE [raw |-> fn.arguments]

toolUseBlock(toolCall) ==
    [type |-> "tool_use", id |-> toolCall.id, name |-> toolCall.function.name,
     input |-> parseArguments(toolCall.function)]

CallPrefix == <<"c", "a", "l", "l", "_">>

\* convertAssistantContent returning the text whenever the first block is a text block
convertAssistantContent_FirstText(msg, dateNow) ==
    LET textBlocks ==
            IF ~Truthy(msg.content) THEN <<>>
            ELSE IF IsString(msg.content) THEN <<[type |-> "text", text |-> msg.content.v]>>
            ELSE LET texts == SelectSeq(msg.content.v, LAMBDA part : part.type = "text")
                 IN  [i \in 1..Len(texts) |-> [type |-> "text", text |-> texts[i].text]]
        toolBlocks ==
            IF Has(msg, "tool_calls")
            THEN [i \in 1..Len(msg.tool_calls) |-> toolUseBlock(msg.tool_calls[i])]
            ELSE <<>>
        legacyBlocks ==
            IF Has(msg, "function_call")
            THEN <<[type |-> "tool_use", id |-> CallPrefix \o NumToStr(dateNow),
                    name |-> msg.function_call.name,
                    input |-> parseArguments(msg.function_call)]>>
            ELSE <<>>
        content == textBlocks \o toolBlocks \o legacyBlocks
    IN  IF Len(content) >= 1 /\ content[1].type = "text" THEN Str(content[1].text)
        ELSE IF Len(content) > 0 THEN Arr(content)
        ELSE Str(<<>>)

\* lines 165-228
convertAssistantContent(msg, dateNow) ==
    LET textBlocks ==
            IF ~Truthy(msg.content) THEN <<>>
            ELSE IF IsString(msg.content) THEN <<[type |-> "text", text |-> msg.content.v]>>
            ELSE LET texts == SelectSeq(msg.content.v, LAMBDA part : part.type = "text")
                 IN  [i \in 1..Len(texts) |-> [type |-> "text", text |-> texts[i].text]]
        toolBlocks ==
            IF Has(msg, "tool_calls")
            THEN [i \in 1..Len(msg.tool_calls) |-> toolUseBlock(msg.tool_calls[i])]
            ELSE <<>>
        legacyBlocks ==
            IF Has(msg, "function_call")
            THEN <<[type |-> "tool_use", id |-> CallPrefix \o NumToStr(dateNow),
                    name |-> msg.function_call.name,
                    input |-> parseArguments(msg.function_call)]>>
            ELSE <<>>
        content == textBlocks \o toolBlocks \o legacyBlocks
    IN  IF Len(content) = 1 /\ content[1].type = "text" THEN Str(content[1].text)
        ELSE IF Len(content) > 0 THEN Arr(content)
        ELSE Str(<<>>)

\* JSON.stringify(null)
NullText == <<"n", "u", "l", "l">>

\* the tool_result block of a tool-role (key tool_call_id) or function-role (key name) message
toolResultBlock(msg, idKey) ==
    [type |-> "tool_result",
     tool_use_id |-> msg[idKey],
     content |-> IF IsString(msg.content) THEN msg.content.v ELSE NullText]

\* placeToolResult without the role test of lines 66 and 93
placeToolResult_AnyRole(messages, toolResult) ==
    LET n == Len(messages) IN
    IF n > 0 THEN
        IF IsString(messages[n].content)
        THEN [messages EXCEPT ![n].content =
                 Arr(<<[type |-> "text", text |-> messages[n].content.v], toolResult>>)]
        ELSE IF IsArray(messages[n].content)
        THEN [messages EXCEPT ![n].content = Arr(Append(messages[n].content.v, toolResult))]
        ELSE messages
    ELSE Append(messages, [role |-> "user", content |-> Arr(<<toolResult>>)])

\* lines 64-78 and 92-104: where the tool_result goes
placeToolResult(messages, toolResult) ==
    LET n == Len(messages) IN
    IF n > 0 /\ messages[n].role = "user" THEN
        IF IsString(messages[n].content)
        THEN [messages EXCEPT ![n].content =
                 Arr(<<[type |-> "text", text |-> messages[n].content.v], toolResult>>)]
        ELSE IF IsArray(messages[n].content)
        THEN [messages EXCEPT ![n].content = Arr(Append(messages[n].content.v, toolResult))]
        ELSE messages
    ELSE Append(messages, [role |-> "user", content |-> Arr(<<toolResult>>)])

\* appendSystem with one newline between the parts
appendSystem_OneNewline(system, text) ==
    IF system # <<>> /\ system[1] # <<>>
    THEN <<system[1] \o <<"\n">> \o text>>
    ELSE <<text>>

\* `${system}\n\n${text}` when system is truthy, else text
appendSystem(system, text) ==
    IF system # <<>> /\ system[1] # <<>>
    THEN <<system[1] \o <<"\n", "\n">> \o text>>
    ELSE <<text>>

\* convertMessage pushing a message of an unrecognised role as a user message
convertMessage_OtherAsUser(acc, msg, dateNow) ==
    IF msg.role = "system" THEN
        IF IsString(msg.content)
        THEN [acc EXCEPT !.system = appendSystem(acc.system, msg.content.v)]
        ELSE IF IsArray(msg.content)
        THEN LET texts == SelectSeq(msg.content.v, LAMBDA part : part.type = "text")
                 text == Join([i \in 1..Len(texts) |-> texts[i].text], <<"\n">>)
             IN  [acc EXCEPT !.system = appendSystem(acc.system, text)]
        ELSE acc
    ELSE IF msg.role = "assistant" THEN
        [acc EXCEPT !.messages =
            Append(@, [role |-> "assistant", content |-> convertAssistantContent(msg, dateNow)])]
    ELSE IF msg.role = "tool" THEN
        [acc EXCEPT !.messages = placeToolResult(@, toolResultBlock(msg, "tool_call_id"))]
    ELSE IF msg.role = "function" THEN
        [acc EXCEPT !.messages = placeToolResult(@, toolResultBlock(msg, "name"))]
    ELSE [acc EXCEPT !.messages =
            Append(@, [role |-> "user", content |-> convertUserContent(msg.content)])]

\* one iteration of the for loop of convertMessages; acc is [system, messages],
\* system being <<>> for null and <<s>> for the string s
convertMessage(acc, msg, dateNow) ==
    IF msg.role = "system" THEN
        IF IsString(msg.content)
        THEN [acc EXCEPT !.system = appendSystem(acc.system, msg.content.v)]
        ELSE IF IsArray(msg.content)
        THEN LET texts == SelectSeq(msg.content.v, LAMBDA part : part.type = "text")
                 text == Join([i \in 1..Len(texts) |-> texts[i].text], <<"\n">>)
             IN  [acc EXCEPT !.system = appendSystem(acc.system, text)]
        ELSE acc
    ELSE IF msg.role = "user" THEN
        [acc EXCEPT !.messages =
            Append(@, [role |-> "user", content |-> convertUserContent(msg.content)])]
    ELSE IF msg.role = "assistant" THEN
        [acc EXCEPT !.messages =
            Append(@, [role |-> "assistant", content |-> convertAssistantContent(msg, dateNow)])]
    ELSE IF msg.role = "tool" THEN
        [acc EXCEPT !.messages = placeToolResult(@, toolResultBlock(msg, "tool_call_id"))]
    ELSE IF msg.role = "function" THEN
        [acc EXCEPT !.messages = placeToolResult(@, toolResultBlock(msg, "name"))]
    ELSE acc

RECURSIVE convertMessagesFrom(_, _, _)
convertMessagesFrom(acc, openaiMessages, dateNow) ==
    IF Len(openaiMessages) = 0 THEN acc
    ELSE convertMessagesFrom(convertMessage(acc, Head(openaiMessages), dateNow),
                             Tail(openaiMessages), dateNow)

convertMessages(openaiMessages, dateNow) ==
    convertMessagesFrom([system |-> <<>>, messages |-> <<>>], openaiMessages, dateNow)

\* mapModel with a table entry that sends gpt-4o to a model of the upstream
mapModel_Table(openaiModel) ==
    IF openaiModel = <<"g", "p", "t", "-", "4", "o">>
    THEN <<"c", "l", "a", "u", "d", "e">>
    ELSE openaiModel

\* lines 300-303
mapModel(openaiModel) == openaiModel

DefaultModel == <<"g", "p", "t", "-", "4">>

DefaultMaxTokens == 4096

\* obj.name is a non-empty string
TruthyName(obj) == Has(obj, "name") /\ obj.name # <<>>

\* a || b for an optional number: absent and 0 are falsy
NumOr(obj, key, other) == IF Has(obj, key) /\ obj[key] # 0 THEN obj[key] ELSE other

\* line 333, messages || [], and what the loop of line 17 visits: the entries of an
\* array; the characters of a string carry no role and are passed over
messagesOrEmpty(request) ==
    IF Has(request, "messages") /\ IsArray(request.messages)
    THEN request.messages.v
    ELSE <<>>

\* line 339 preferring max_tokens to max_completion_tokens
maxTokens_LegacyFirst(request) ==
    NumOr(request, "max_tokens", NumOr(request, "max_completion_tokens", DefaultMaxTokens))

\* line 339: max_completion_tokens || max_tokens || 4096
maxTokens(request) ==
    NumOr(request, "max_completion_tokens", NumOr(request, "max_tokens", DefaultMaxTokens))

\* temperature and top_p are numbers counted in tenths: 7 is 0.7, and 10 is the 1 of
\* Math.min(1, temperature)
TemperatureOne == 10

\* line 350 clamping to the range 0..2 of the OpenAI API
clampTemperature_UpToTwo(temperature) ==
    IF temperature < 0 THEN 0
    ELSE IF temperature > 2 * TemperatureOne THEN 2 * TemperatureOne
    ELSE temperature

\* line 350: Math.max(0, Math.min(1, temperature))
clampTemperature(temperature) ==
    LET least == IF temperature < TemperatureOne THEN temperature ELSE TemperatureOne
    IN  IF least > 0 THEN least ELSE 0

\* lines 232-258: convertTools on an array of tools
convertTools(openaiTools) ==
    [i \in 1..Len(openaiTools) |->
        LET tool == openaiTools[i] IN
        IF Has(tool, "type") /\ tool.type = "function"
        THEN [name |-> tool.function.name,
              description |-> IF Has(tool.function, "description")
                              THEN tool.function.description ELSE <<>>,
              input_schema |-> IF Has(tool.function, "parameters")
                               THEN tool.function.parameters ELSE [type |-> "object"]]
        ELSE IF TruthyName(tool)
        THEN [name |-> tool.name,
              description |-> IF Has(tool, "description") THEN tool.description ELSE <<>>,
              input_schema |-> IF Has(tool, "parameters")
                               THEN tool.parameters ELSE [type |-> "object"]]
        ELSE tool]

\* a tool_choice value is tagged like a content value: Str(s), Null, or an object
Obj(o) == [t |-> "object", v |-> <<o>>]
IsObject(c) == c.t = "object"

\* convertToolChoice sending every string it does not know to type 'any'
convertToolChoice_OtherIsAny(openaiToolChoice) ==
    IF ~(IsObject(openaiToolChoice) \/ Truthy(openaiToolChoice)) THEN <<>>
    ELSE IF IsString(openaiToolChoice) THEN
        IF openaiToolChoice.v = <<"none">> THEN <<[type |-> "none"]>>
        ELSE IF openaiToolChoice.v = <<"auto">> THEN <<[type |-> "auto"]>>
        ELSE <<[type |-> "any"]>>
    ELSE IF /\ IsObject(openaiToolChoice)
            /\ Has(openaiToolChoice.v[1], "type")
            /\ openaiToolChoice.v[1].type = "function"
            /\ Has(openaiToolChoice.v[1], "function")
            /\ TruthyName(openaiToolChoice.v[1].function)
    THEN <<[type |-> "tool", name |-> openaiToolChoice.v[1].function.name]>>
    ELSE <<[type |-> "auto"]>>

\* lines 265-293: convertToolChoice, <<>> standing for undefined
convertToolChoice(openaiToolChoice) ==
    IF ~(IsObject(openaiToolChoice) \/ Truthy(openaiToolChoice)) THEN <<>>
    ELSE IF IsString(openaiToolChoice) THEN
        IF openaiToolChoice.v = <<"none">> THEN <<[type |-> "none"]>>
        ELSE IF openaiToolChoice.v = <<"auto">> THEN <<[type |-> "auto"]>>
        ELSE IF openaiToolChoice.v = <<"required">> THEN <<[type |-> "any"]>>
        ELSE <<[type |-> "auto"]>>
    ELSE IF /\ IsObject(openaiToolChoice)
            /\ Has(openaiToolChoice.v[1], "type")
            /\ openaiToolChoice.v[1].type = "function"
            /\ Has(openaiToolChoice.v[1], "function")
            /\ TruthyName(openaiToolChoice.v[1].function)
    THEN <<[type |-> "tool", name |-> openaiToolChoice.v[1].function.name]>>
    ELSE <<[type |-> "auto"]>>

\* String.prototype.includes
includes(s, sub) ==
    \E i \in 1..(Len(s) - Len(sub) + 1) : SubSeq(s, i, i + Len(sub) - 1) = sub

Thinking == <<"t", "h", "i", "n", "k", "i", "n", "g">>
ThinkingCeiling == 16000

\* line 378 without the ceiling
budgetTokens_NoCeiling(max_tokens) ==
    (IF max_tokens # 0 THEN max_tokens ELSE DefaultMaxTokens) \div 2

\* line 378: Math.min(16000, Math.floor((anthropicRequest.max_tokens || 4096) * 0.5))
budgetTokens(max_tokens) ==
    LET half == (IF max_tokens # 0 THEN max_tokens ELSE DefaultMaxTokens) \div 2
    IN  IF half < ThinkingCeiling THEN half ELSE ThinkingCeiling

\* lines 348-381: the optional fields added to the request built so far
withOptions(request, built) ==
    LET temperature ==
            IF Has(request, "temperature")
            THEN [temperature |-> clampTemperature(request.temperature)] ELSE EmptyObj
        top_p == IF Has(request, "top_p") THEN [top_p |-> request.top_p] ELSE EmptyObj
        tools ==
            IF Has(request, "tools") /\ IsArray(request.tools) /\ request.tools.v # <<>>
            THEN [tools |-> convertTools(request.tools.v)] ELSE EmptyObj
        anthropicToolChoice ==
            IF Has(request, "tool_choice") THEN convertToolChoice(request.tool_choice) ELSE <<>>
        tool_choice ==
            IF anthropicToolChoice # <<>>
            THEN [tool_choice |-> anthropicToolChoice[1]] ELSE EmptyObj
        stop ==
            IF Has(request, "stop") /\ Truthy(request.stop)
            THEN [stop_sequences |-> IF IsArray(request.stop) THEN request.stop.v
                                     ELSE <<request.stop.v>>]
            ELSE EmptyObj
        thinking ==
            IF includes(built.model, Thinking)
            THEN [thinking |-> [type |-> "enabled",
                                budget_tokens |-> budgetTokens(built.max_tokens)]]
            ELSE EmptyObj
    IN  built @@ temperature @@ top_p @@ tools @@ tool_choice @@ stop @@ thinking

\* convertOpenAIToAnthropic testing system !== null instead of its truthiness (line 344)
convertOpenAIToAnthropic_SystemNotNull(request, dateNow) ==
    LET converted == convertMessages(messagesOrEmpty(request), dateNow)
        base == [model |-> mapModel(IF Has(request, "model") /\ request.model # <<>>
                                    THEN request.model ELSE DefaultModel),
                 messages |-> converted.messages,
                 max_tokens |-> maxTokens(request),
                 stream |-> IF Has(request, "stream") THEN request.stream ELSE FALSE]
    IN  IF converted.system # <<>>
        THEN withOptions(request, base @@ [system |-> converted.system[1]])
        ELSE withOptions(request, base)

\* lines 310-386: the request with its model, messages, max_tokens, stream and system,
\* and the optional fields of lines 348-381
convertOpenAIToAnthropic(request, dateNow) ==
    LET converted == convertMessages(messagesOrEmpty(request), dateNow)
        base == [model |-> mapModel(IF Has(request, "model") /\ request.model # <<>>
                                    THEN request.model ELSE DefaultModel),
                 messages |-> converted.messages,
                 max_tokens |-> maxTokens(request),
                 stream |-> IF Has(request, "stream") THEN request.stream ELSE FALSE]
    IN  IF converted.system # <<>> /\ converted.system[1] # <<>>
        THEN withOptions(request, base @@ [system |-> converted.system[1]])
        ELSE withOptions(request, base)

(***************************************************************************)
(* anthropic-to-openai.js                                                  *)
(***************************************************************************)
\* JavaScript null where the other values are tags
JSNull == "null"

\* the properties every object literal inherits from Object.prototype
ObjectPrototypeKeys ==
    {"constructor", "toString", "valueOf", "hasOwnProperty", "isPrototypeOf",
     "propertyIsEnumerable", "toLocaleString", "__proto__"}

\* reasonMap[stopReason] || 'stop'; "[inherited]" stands for the (truthy, non-string)
\* value the lookup finds on Object.prototype
mapFinishReason(stopReason) ==
    IF stopReason \in {"end_turn", "stop_sequence"} THEN "stop"
    ELSE IF stopReason = "max_tokens" THEN "length"
    ELSE IF stopReason = "tool_use" THEN "tool_calls"
    ELSE IF stopReason \in ObjectPrototypeKeys THEN "[inherited]"
    ELSE "stop"

IdPrefix == <<"c", "h", "a", "t", "c", "m", "p", "l", "-">>

\* x?.key is present and truthy, for a string-valued key
TruthyStr(obj, key) == Has(obj, key) /\ obj[key] # <<>>
\* n || 0 for an optional count
CountOr0(obj, key) == IF Has(obj, key) THEN obj[key] ELSE 0

\* chunk tagging every delta with the role
chunk_AlwaysRole(responseId, created, requestModel, delta, finishReason) ==
    [id |-> responseId, object |-> "chat.completion.chunk", created |-> created,
     model |-> requestModel,
     choices |-> <<[index |-> 0,
                    delta |-> [k \in DOMAIN delta \cup {"role"} |->
                                  IF k = "role" THEN "assistant" ELSE delta[k]],
                    logprobs |-> JSNull,
                    finish_reason |-> finishReason]>>]

\* one chunk with a single choice
chunk(responseId, created, requestModel, delta, finishReason) ==
    [id |-> responseId, object |-> "chat.completion.chunk", created |-> created,
     model |-> requestModel,
     choices |-> <<[index |-> 0, delta |-> delta, logprobs |-> JSNull,
                    finish_reason |-> finishReason]>>]

\* messageDelta putting the usage on the terminal chunk instead of a chunk of its own
messageDelta_UsageOnTerminal(anthropicEvent, requestModel, st, responseId, created) ==
    LET usage ==
            [prompt_tokens |-> CountOr0(anthropicEvent.usage, "input_tokens"),
             completion_tokens |-> CountOr0(anthropicEvent.usage, "output_tokens"),
             total_tokens |-> CountOr0(anthropicEvent.usage, "input_tokens")
                              + CountOr0(anthropicEvent.usage, "output_tokens")]
        finishReason ==
            IF /\ Has(anthropicEvent, "delta")
               /\ Has(anthropicEvent.delta, "stop_reason")
               /\ anthropicEvent.delta.stop_reason # ""
            THEN mapFinishReason(anthropicEvent.delta.stop_reason)
            ELSE JSNull
        plain == [id |-> responseId, object |-> "chat.completion.chunk",
                  created |-> created, model |-> requestModel,
                  choices |-> <<[index |-> 0, delta |-> EmptyObj, logprobs |-> JSNull,
                                 finish_reason |-> finishReason]>>]
    IN  IF Has(anthropicEvent, "usage")
        THEN [events |-> <<[k \in DOMAIN plain \cup {"usage"} |->
                               IF k = "usage" THEN usage ELSE plain[k]]>>,
              state |-> [k \in DOMAIN st \cup {"usage"} |->
                            IF k = "usage" THEN usage ELSE st[k]]]
        ELSE [events |-> IF finishReason = JSNull THEN <<>> ELSE <<plain>>, state |-> st]

\* messageDelta pushing the usage chunk before the terminal chunk
messageDelta_UsageFirst(anthropicEvent, requestModel, st, responseId, created) ==
    LET stopChunks ==
            IF /\ Has(anthropicEvent, "delta")
               /\ Has(anthropicEvent.delta, "stop_reason")
               /\ anthropicEvent.delta.stop_reason # ""
            THEN <<chunk(responseId, created, requestModel, EmptyObj,
                         mapFinishReason(anthropicEvent.delta.stop_reason))>>
            ELSE <<>>
        usage ==
            [prompt_tokens |-> CountOr0(anthropicEvent.usage, "input_tokens"),
             completion_tokens |-> CountOr0(anthropicEvent.usage, "output_tokens"),
             total_tokens |-> CountOr0(anthropicEvent.usage, "input_tokens")
                              + CountOr0(anthropicEvent.usage, "output_tokens")]
    IN  IF Has(anthropicEvent, "usage")
        THEN [events |-> <<[id |-> responseId, object |-> "chat.completion.chunk",
                            created |-> created, model |-> requestModel,
                            choices |-> <<>>, usage |-> usage]>> \o stopChunks,
              state |-> [k \in DOMAIN st \cup {"usage"} |->
                            IF k = "usage" THEN usage ELSE st[k]]]
        ELSE [events |-> stopChunks, state |-> st]

\* lines 290-327: the chunks and the state of a message_delta event
messageDelta(anthropicEvent, requestModel, st, responseId, created) ==
    LET stopChunks ==
            IF /\ Has(anthropicEvent, "delta")
               /\ Has(anthropicEvent.delta, "stop_reason")
               /\ anthropicEvent.delta.stop_reason # ""
            THEN <<chunk(responseId, created, requestModel, EmptyObj,
                         mapFinishReason(anthropicEvent.delta.stop_reason))>>
            ELSE <<>>
        usage ==
            [prompt_tokens |-> CountOr0(anthropicEvent.usage, "input_tokens"),
             completion_tokens |-> CountOr0(anthropicEvent.usage, "output_tokens"),
             total_tokens |-> CountOr0(anthropicEvent.usage, "input_tokens")
                              + CountOr0(anthropicEvent.usage, "output_tokens")]
    IN  IF Has(anthropicEvent, "usage")
        THEN [events |-> Append(stopChunks,
                  [id |-> responseId, object |-> "chat.completion.chunk",
                   created |-> created, model |-> requestModel,
                   choices |-> <<>>, usage |-> usage]),
              state |-> [k \in DOMAIN st \cup {"usage"} |->
                            IF k = "usage" THEN usage ELSE st[k]]]
        ELSE [events |-> stopChunks, state |-> st]

\* contentBlockStart closing the open tool call when a block of another type starts
contentBlockStart_OtherBlockCloses(anthropicEvent, requestModel, st, responseId, created) ==
    IF /\ Has(anthropicEvent, "content_block")
       /\ anthropicEvent.content_block.type = "tool_use"
    THEN LET block == anthropicEvent.content_block
             index == IF Has(st, "toolCallIndex") THEN st.toolCallIndex ELSE 0
             call == [index |-> index, id |-> block.id, type |-> "function",
                      function |-> [name |-> block.name, arguments |-> <<>>]]
         IN  [events |-> <<chunk(responseId, created, requestModel,
                                 [tool_calls |-> <<call>>], JSNull)>>,
              state |-> [k \in DOMAIN st \cup {"currentToolCall", "toolCallIndex"} |->
                            IF k = "currentToolCall" THEN <<call>>
                            ELSE IF k = "toolCallIndex" THEN index + 1
                            ELSE st[k]]]
    ELSE [events |-> <<>>,
          state |-> [k \in DOMAIN st \cup {"currentToolCall"} |->
                        IF k = "currentToolCall" THEN <<>> ELSE st[k]]]

\* contentBlockStart leaving state.toolCallIndex as it found it
contentBlockStart_NoIncrement(anthropicEvent, requestModel, st, responseId, created) ==
    IF /\ Has(anthropicEvent, "content_block")
       /\ anthropicEvent.content_block.type = "tool_use"
    THEN LET block == anthropicEvent.content_block
             index == IF Has(st, "toolCallIndex") THEN st.toolCallIndex ELSE 0
             call == [index |-> index, id |-> block.id, type |-> "function",
                      function |-> [name |-> block.name, arguments |-> <<>>]]
         IN  [events |-> <<chunk(responseId, created, requestModel,
                                 [tool_calls |-> <<call>>], JSNull)>>,
              state |-> [k \in DOMAIN st \cup {"currentToolCall", "toolCallIndex"} |->
                            IF k = "currentToolCall" THEN <<call>>
                            ELSE IF k = "toolCallIndex" THEN index
                            ELSE st[k]]]
    ELSE [events |-> <<>>, state |-> st]

\* lines 188-226: content_block_start
contentBlockStart(anthropicEvent, requestModel, st, responseId, created) ==
    IF /\ Has(anthropicEvent, "content_block")
       /\ anthropicEvent.content_block.type = "tool_use"
    THEN LET block == anthropicEvent.content_block
             index == IF Has(st, "toolCallIndex") THEN st.toolCallIndex ELSE 0
             call == [index |-> index, id |-> block.id, type |-> "function",
                      function |-> [name |-> block.name, arguments |-> <<>>]]
         IN  [events |-> <<chunk(responseId, created, requestModel,
                                 [tool_calls |-> <<call>>], JSNull)>>,
              state |-> [k \in DOMAIN st \cup {"currentToolCall", "toolCallIndex"} |->
                            IF k = "currentToolCall" THEN <<call>>
                            ELSE IF k = "toolCallIndex" THEN index + 1
                            ELSE st[k]]]
    ELSE [events |-> <<>>, state |-> st]

\* contentBlockDelta sending thinking text down the content channel
contentBlockDelta_ThinkingAsContent(anthropicEvent, requestModel, st, responseId, created) ==
    LET delta == IF Has(anthropicEvent, "delta") THEN anthropicEvent.delta
                 ELSE [type |-> "undefined"]
    IN  IF delta.type = "text_delta" /\ TruthyStr(delta, "text")
        THEN <<chunk(responseId, created, requestModel, [content |-> delta.text], JSNull)>>
        ELSE IF delta.type = "thinking_delta" /\ TruthyStr(delta, "thinking")
        THEN <<chunk(responseId, created, requestModel, [content |-> delta.thinking], JSNull)>>
        ELSE IF delta.type = "input_json_delta" /\ TruthyStr(delta, "partial_json")
                /\ Has(st, "currentToolCall") /\ st.currentToolCall # <<>>
        THEN <<chunk(responseId, created, requestModel,
                     [tool_calls |-> <<[index |-> st.currentToolCall[1].index,
                                        function |-> [arguments |-> delta.partial_json]]>>],
                     JSNull)>>
        ELSE <<>>

\* contentBlockDelta without the input_json_delta branch of lines 259-282
contentBlockDelta_NoToolArguments(anthropicEvent, requestModel, st, responseId, created) ==
    LET delta == IF Has(anthropicEvent, "delta") THEN anthropicEvent.delta
                 ELSE [type |-> "undefined"]
    IN  IF delta.type = "text_delta" /\ TruthyStr(delta, "text")
        THEN <<chunk(responseId, created, requestModel, [content |-> delta.text], JSNull)>>
        ELSE IF delta.type = "thinking_delta" /\ TruthyStr(delta, "thinking")
        THEN <<chunk(responseId, created, requestModel,
                     [reasoning_content |-> delta.thinking], JSNull)>>
        ELSE <<>>

\* lines 228-283: content_block_delta
contentBlockDelta(anthropicEvent, requestModel, st, responseId, created) ==
    LET delta == IF Has(anthropicEvent, "delta") THEN anthropicEvent.delta
                 ELSE [type |-> "undefined"]
    IN  IF delta.type = "text_delta" /\ TruthyStr(delta, "text")
        THEN <<chunk(responseId, created, requestModel, [content |-> delta.text], JSNull)>>
        ELSE IF delta.type = "thinking_delta" /\ TruthyStr(delta, "thinking")
        THEN <<chunk(responseId, created, requestModel,
                     [reasoning_content |-> delta.thinking], JSNull)>>
        ELSE IF delta.type = "input_json_delta" /\ TruthyStr(delta, "partial_json")
        THEN IF Has(st, "currentToolCall") /\ st.currentToolCall # <<>>
             THEN <<chunk(responseId, created, requestModel,
                          [tool_calls |-> <<[index |-> st.currentToolCall[1].index,
                                             function |-> [arguments |-> delta.partial_json]]>>],
                          JSNull)>>
             ELSE <<>>
        ELSE <<>>

\* line 164 without the reuse of state.responseId
streamResponseId_Fresh(st, randomHex) == IdPrefix \o randomHex

\* line 164: state.responseId || `chatcmpl-${crypto.randomBytes(12).toString('hex')}`
streamResponseId(st, randomHex) ==
    IF TruthyStr(st, "responseId") THEN st.responseId ELSE IdPrefix \o randomHex

\* line 165: state.created || Math.floor(Date.now() / 1000)
streamCreated(st, seconds) ==
    IF Has(st, "created") /\ st.created # 0 THEN st.created ELSE seconds

\* lines 164-165 evaluate crypto.randomBytes and Date.now only when the state holds
\* no identifier or timestamp yet: the answers a call can get, <<>> and 0 standing
\* for "not asked"
randomBytesDraws(st, answers) == IF TruthyStr(st, "responseId") THEN {<<>>} ELSE answers
dateNowDraws(st, answers) == IF Has(st, "created") /\ st.created # 0 THEN {0} ELSE answers

\* convertStreamEvent whose content_block_stop also resets state.toolCallIndex
convertStreamEvent_StopResetsCounter(anthropicEvent, requestModel, st, randomHex, seconds) ==
    LET responseId == streamResponseId(st, randomHex)
        created == streamCreated(st, seconds)
        st1 == [k \in DOMAIN st \cup {"responseId", "created"} |->
                   IF k = "responseId" THEN responseId
                   ELSE IF k = "created" THEN created
                   ELSE st[k]]
        eventType == anthropicEvent.type
    IN  IF eventType = "message_start"
        THEN [events |-> <<chunk(responseId, created, requestModel,
                                 [role |-> "assistant", content |-> <<>>], JSNull)>>,
              state |-> st1]
        ELSE IF eventType = "content_block_start"
        THEN contentBlockStart(anthropicEvent, requestModel, st1, responseId, created)
        ELSE IF eventType = "content_block_delta"
        THEN [events |-> contentBlockDelta(anthropicEvent, requestModel, st1,
                                           responseId, created),
              state |-> st1]
        ELSE IF eventType = "content_block_stop"
        THEN [events |-> <<>>,
              state |-> [k \in DOMAIN st1 \cup {"currentToolCall", "toolCallIndex"} |->
                            IF k = "currentToolCall" THEN <<>>
                            ELSE IF k = "toolCallIndex" THEN 0
                            ELSE st1[k]]]
        ELSE IF eventType = "message_delta"
        THEN messageDelta(anthropicEvent, requestModel, st1, responseId, created)
        ELSE [events |-> <<>>, state |-> st1]

\* convertStreamEvent whose content_block_stop leaves state.currentToolCall set
convertStreamEvent_StopKeepsCall(anthropicEvent, requestModel, st, randomHex, seconds) ==
    LET responseId == streamResponseId(st, randomHex)
        created == streamCreated(st, seconds)
        st1 == [k \in DOMAIN st \cup {"responseId", "created"} |->
                   IF k = "responseId" THEN responseId
                   ELSE IF k = "created" THEN created
                   ELSE st[k]]
        eventType == anthropicEvent.type
    IN  IF eventType = "message_start"
        THEN [events |-> <<chunk(responseId, created, requestModel,
                                 [role |-> "assistant", content |-> <<>>], JSNull)>>,
              state |-> st1]
        ELSE IF eventType = "content_block_start"
        THEN contentBlockStart(anthropicEvent, requestModel, st1, responseId, created)
        ELSE IF eventType = "content_block_delta"
        THEN [events |-> contentBlockDelta(anthropicEvent, requestModel, st1,
                                           responseId, created),
              state |-> st1]
        ELSE IF eventType = "message_delta"
        THEN messageDelta(anthropicEvent, requestModel, st1, responseId, created)
        ELSE [events |-> <<>>, state |-> st1]

\* convertStreamEvent: the chunks returned and the state object as the call leaves
\* it.  randomHex is what crypto.randomBytes(12).toString('hex') answers and seconds
\* what Math.floor(Date.now() / 1000) answers, were they evaluated; state.currentToolCall
\* is <<>> for null and <<call>> for an object.
convertStreamEvent(anthropicEvent, requestModel, st, randomHex, seconds) ==
    LET responseId == streamResponseId(st, randomHex)
        created == streamCreated(st, seconds)
        st1 == [k \in DOMAIN st \cup {"responseId", "created"} |->
                   IF k = "responseId" THEN responseId
                   ELSE IF k = "created" THEN created
                   ELSE st[k]]
        eventType == anthropicEvent.type
    IN  IF eventType = "message_start"
        THEN [events |-> <<chunk(responseId, created, requestModel,
                                 [role |-> "assistant", content |-> <<>>], JSNull)>>,
              state |-> st1]
        ELSE IF eventType = "content_block_start"
        THEN contentBlockStart(anthropicEvent, requestModel, st1, responseId, created)
        ELSE IF eventType = "content_block_delta"
        THEN [events |-> contentBlockDelta(anthropicEvent, requestModel, st1,
                                           responseId, created),
              state |-> st1]
        ELSE IF eventType = "content_block_stop"
        THEN [events |-> <<>>,
              state |-> [k \in DOMAIN st1 \cup {"currentToolCall"} |->
                            IF k = "currentToolCall" THEN <<>> ELSE st1[k]]]
        ELSE IF eventType = "message_delta"
        THEN messageDelta(anthropicEvent, requestModel, st1, responseId, created)
        ELSE [events |-> <<>>, state |-> st1]

\* JSON.stringify, on the tool inputs the responses of this model carry: an object
\* with no member, or with one member whose key is one character and whose value
\* is a string without characters that need escaping
JSONstringify(obj) ==
    IF DOMAIN obj = {} THEN <<"{", "}">>
    ELSE LET k == CHOOSE key \in DOMAIN obj : TRUE
         IN  <<"{", "\"", k, "\"", ":", "\"">> \o obj[k] \o <<"\"", "}">>

RECURSIVE convertContentFrom_Unshift(_, _)
\* the loop of convertContent putting each tool call in front of the earlier ones
convertContentFrom_Unshift(acc, content) ==
    IF Len(content) = 0 THEN acc
    ELSE LET block == Head(content)
             next ==
                 IF block.type = "text"
                 THEN [acc EXCEPT !.textContent = @ \o block.text]
                 ELSE IF block.type = "thinking"
                 THEN [acc EXCEPT !.hasThinking = TRUE, !.thinkingContent = @ \o block.thinking]
                 ELSE IF block.type = "tool_use"
                 THEN [acc EXCEPT !.toolCalls =
                          <<[id |-> block.id, type |-> "function",
                             function |-> [name |-> block.name,
                                           arguments |-> JSONstringify(
                                               IF Has(block, "input") THEN block.input
                                               ELSE EmptyObj)]]>> \o @]
                 ELSE acc
         IN  convertContentFrom_Unshift(next, Tail(content))

RECURSIVE convertContentFrom(_, _)
\* the for loop of convertContent: acc is [textContent, toolCalls, hasThinking, thinkingContent]
convertContentFrom(acc, content) ==
    IF Len(content) = 0 THEN acc
    ELSE LET block == Head(content)
             next ==
                 IF block.type = "text"
                 THEN [acc EXCEPT !.textContent = @ \o block.text]
                 ELSE IF block.type = "thinking"
                 THEN [acc EXCEPT !.hasThinking = TRUE, !.thinkingContent = @ \o block.thinking]
                 ELSE IF block.type = "tool_use"
                 THEN [acc EXCEPT !.toolCalls = Append(@,
                          [id |-> block.id, type |-> "function",
                           function |-> [name |-> block.name,
                                         arguments |-> JSONstringify(
                                             IF Has(block, "input") THEN block.input
                                             ELSE EmptyObj)]])]
                 ELSE acc
         IN  convertContentFrom(next, Tail(content))

\* convertContent with the third option of lines 89-90 switched on: the thinking
\* text goes in front of the content
convertContent_ThoughtPrepended(content) ==
    IF content = <<>>
    THEN [message |-> [role |-> "assistant", content |-> Str(<<>>)], hasToolCalls |-> FALSE]
    ELSE LET acc == convertContentFrom(
                 [textContent |-> <<>>, toolCalls |-> <<>>, hasThinking |-> FALSE,
                  thinkingContent |-> <<>>], content[1])
             m0 == [role |-> "assistant",
                    content |-> IF acc.hasThinking /\ acc.thinkingContent # <<>>
                                THEN Str(acc.thinkingContent \o acc.textContent)
                                ELSE IF acc.textContent # <<>> THEN Str(acc.textContent)
                                ELSE Null]
             m1 == IF Len(acc.toolCalls) > 0 THEN m0 @@ [tool_calls |-> acc.toolCalls] ELSE m0
             m2 == IF acc.hasThinking /\ acc.thinkingContent # <<>>
                   THEN m1 @@ [_thinking |-> acc.thinkingContent,
                               reasoning_content |-> acc.thinkingContent]
                   ELSE m1
         IN  [message |-> m2, hasToolCalls |-> Len(acc.toolCalls) > 0]

\* convertContent: content is <<>> for a missing content field, else <<blocks>>
convertContent(content) ==
    IF content = <<>>
    THEN [message |-> [role |-> "assistant", content |-> Str(<<>>)], hasToolCalls |-> FALSE]
    ELSE LET acc == convertContentFrom(
                 [textContent |-> <<>>, toolCalls |-> <<>>, hasThinking |-> FALSE,
                  thinkingContent |-> <<>>], content[1])
             m0 == [role |-> "assistant",
                    content |-> IF acc.textContent # <<>> THEN Str(acc.textContent) ELSE Null]
             m1 == IF Len(acc.toolCalls) > 0 THEN m0 @@ [tool_calls |-> acc.toolCalls] ELSE m0
             m2 == IF acc.hasThinking /\ acc.thinkingContent # <<>>
                   THEN m1 @@ [_thinking |-> acc.thinkingContent,
                               reasoning_content |-> acc.thinkingContent]
                   ELSE m1
         IN  [message |-> m2, hasToolCalls |-> Len(acc.toolCalls) > 0]

\* convertAnthropicToOpenAI testing the cache-read count alone on line 143
convertAnthropicToOpenAI_ReadCountOnly(anthropicResponse, requestModel, randomHex, seconds) ==
    LET converted == convertContent(IF Has(anthropicResponse, "content")
                                    THEN <<anthropicResponse.content>> ELSE <<>>)
        usage == IF Has(anthropicResponse, "usage") THEN anthropicResponse.usage ELSE EmptyObj
        u0 == [prompt_tokens |-> CountOr0(usage, "input_tokens"),
               completion_tokens |-> CountOr0(usage, "output_tokens"),
               total_tokens |-> CountOr0(usage, "input_tokens")
                                + CountOr0(usage, "output_tokens")]
        u1 == IF CountOr0(usage, "cache_read_input_tokens") # 0
              THEN u0 @@ [prompt_tokens_details |->
                             [cached_tokens |-> CountOr0(usage, "cache_read_input_tokens")]]
              ELSE u0
    IN  [id |-> IdPrefix \o randomHex,
         object |-> "chat.completion",
         created |-> seconds,
         model |-> IF requestModel # <<>> THEN requestModel ELSE anthropicResponse.model,
         choices |-> <<[index |-> 0, message |-> converted.message, logprobs |-> JSNull,
                        finish_reason |-> mapFinishReason(
                            IF Has(anthropicResponse, "stop_reason")
                            THEN anthropicResponse.stop_reason ELSE "undefined")]>>,
         usage |-> u1,
         system_fingerprint |-> JSNull]

\* convertAnthropicToOpenAI; requestModel is <<>> when falsy
convertAnthropicToOpenAI(anthropicResponse, requestModel, randomHex, seconds) ==
    LET converted == convertContent(IF Has(anthropicResponse, "content")
                                    THEN <<anthropicResponse.content>> ELSE <<>>)
        usage == IF Has(anthropicResponse, "usage") THEN anthropicResponse.usage ELSE EmptyObj
        u0 == [prompt_tokens |-> CountOr0(usage, "input_tokens"),
               completion_tokens |-> CountOr0(usage, "output_tokens"),
               total_tokens |-> CountOr0(usage, "input_tokens")
                                + CountOr0(usage, "output_tokens")]
        u1 == IF \/ CountOr0(usage, "cache_read_input_tokens") # 0
                 \/ CountOr0(usage, "cache_creation_input_tokens") # 0
              THEN u0 @@ [prompt_tokens_details |->
                             [cached_tokens |-> CountOr0(usage, "cache_read_input_tokens")]]
              ELSE u0
    IN  [id |-> IdPrefix \o randomHex,
         object |-> "chat.completion",
         created |-> seconds,
         model |-> IF requestModel # <<>> THEN requestModel ELSE anthropicResponse.model,
         choices |-> <<[index |-> 0, message |-> converted.message, logprobs |-> JSNull,
                        finish_reason |-> mapFinishReason(
                            IF Has(anthropicResponse, "stop_reason")
                            THEN anthropicResponse.stop_reason ELSE "undefined")]>>,
         usage |-> u1,
         system_fingerprint |-> JSNull]

\* createErrorResponse(message, type[, status]); the status argument is not used
createErrorResponse(message, type) ==
    [error |-> [message |-> message, type |-> type, param |-> JSNull, code |-> JSNull]]

(***************************************************************************)
(* The requests of the model                                               *)
(***************************************************************************)
TextPart(s) == [type |-> "text", text |-> s]
DataUri == DataPrefix \o <<"i", "/", "p">> \o Base64Marker \o <<"Q", "Q">>
PlainUrl == <<"h", ":", "/", "x">>
ImagePart(url) == [type |-> "image_url", image_url |-> [url |-> url]]
ToolCall(id, name, arguments) ==
    [id |-> id, type |-> "function", function |-> [name |-> name, arguments |-> arguments]]
GoodArgs == <<"{", "\"", "q", "\"", ":", "\"", "x", "\"", "}">>
BadArgs == <<"{", "\"", "q">>

SystemMsgs ==
    {[role |-> "system", content |-> c] :
        c \in {Str(<<>>), Str(<<"s">>), Arr(<<>>), Arr(<<TextPart(<<>>), TextPart(<<>>)>>),
               Arr(<<TextPart(<<"b">>), ImagePart(PlainUrl)>>), Null}}
UserMsgs ==
    {[role |-> "user", content |-> c] :
        c \in {Str(<<"u">>), Arr(<<TextPart(<<"u">>)>>),
               Arr(<<ImagePart(DataUri), ImagePart(PlainUrl)>>), Null}}
AssistantMsgs ==
    {[role |-> "assistant", content |-> Str(<<"a">>)],
     [role |-> "assistant", content |-> Str(<<>>)],
     [role |-> "assistant", content |-> Arr(<<TextPart(<<"a">>), TextPart(<<"b">>)>>)],
     [role |-> "assistant", content |-> Null,
      tool_calls |-> <<ToolCall(<<"t", "1">>, <<"f">>, GoodArgs)>>],
     [role |-> "assistant", content |-> Str(<<"a">>),
      tool_calls |-> <<ToolCall(<<"t", "1">>, <<"f">>, BadArgs),
                       ToolCall(<<"t", "2">>, <<"g">>, <<"{", "}">>)>>],
     [role |-> "assistant", content |-> Null,
      function_call |-> [name |-> <<"f">>, arguments |-> GoodArgs]]}
ToolMsgs ==
    {[role |-> "tool", tool_call_id |-> <<"t", "1">>, content |-> c] :
        c \in {Str(<<"r">>), Null}}
FunctionMsgs == {[role |-> "function", name |-> <<"f">>, content |-> Str(<<"r">>)]}
OtherMsgs == {[role |-> "developer", content |-> Str(<<"d">>)]}

Messages == SystemMsgs \cup UserMsgs \cup AssistantMsgs \cup ToolMsgs \cup FunctionMsgs
                \cup OtherMsgs
MessageLists == UNION {[1..n -> Messages] : n \in 0..MaxMsgs}

(***************************************************************************)
(* SpecReq: one call of convertOpenAIToAnthropic on an arbitrary request   *)
(***************************************************************************)
CvtIdle ==
    /\ state = EmptyObj
    /\ fed = <<>>
    /\ events = <<>>
    /\ perEvent = <<>>

SrvIdle ==
    /\ pc = "idle"
    /\ headersSent = FALSE
    /\ statusCode = 200
    /\ jsonBody = <<>>
    /\ written = <<>>
    /\ ended = FALSE
    /\ buffer = <<>>
    /\ streamState = EmptyObj
    /\ upstreamStatus = 0
    /\ inflight = <<>>
    /\ upSent = 0
    /\ upClosed = FALSE
    /\ clientOpen = TRUE
    /\ consumed = <<>>
    /\ splitAt = 0

\* no upstream message under translation
MsgIdle ==
    /\ upstreamMessage = EmptyObj
    /\ pieces = 1
    /\ openaiResponse = <<>>

\* no pair of exchanges in flight
PairIdle == exchanges = <<>>

\* no request at the /v1 middleware
GateIdle ==
    /\ config = EmptyObj
    /\ req = EmptyObj

\* no request to GET /v1/models
ModelsIdle ==
    /\ modelsCache = [data |-> <<>>, timestamp |-> 0]
    /\ clock = 1
    /\ ticks = 0
    /\ handlers = <<>>
    /\ upstreamCalls = 0
    /\ lastFetch = <<>>

InitReq ==
    /\ openaiRequest \in {[model |-> <<"m">>, messages |-> Arr(ms)] : ms \in MessageLists}
    /\ reqNow \in 1..MaxClock
    /\ anthropicRequest = <<>>
    /\ CvtIdle
    /\ SrvIdle
    /\ MsgIdle
    /\ PairIdle
    /\ GateIdle
    /\ ModelsIdle

Translate ==
    /\ anthropicRequest = <<>>
    /\ anthropicRequest' = <<convertOpenAIToAnthropic(openaiRequest, reqNow)>>
    /\ UNCHANGED <<openaiRequest, reqNow, restVars, srvVars>>

NextReq == Translate
SpecReq == InitReq /\ [][NextReq]_vars

\* the result of the call, once it has returned
Translated == anthropicRequest # <<>>
Result == anthropicRequest[1]
Input == openaiRequest.messages.v
Front(seq) == SubSeq(seq, 1, Len(seq) - 1)
Last(seq) == seq[Len(seq)]
HoldsToolResult(message) ==
    /\ IsArray(message.content)
    /\ \E i \in 1..Len(message.content.v) : message.content.v[i].type = "tool_result"

\* C1: no assistant-role upstream message holds a tool_result block, and a tool-role
\* or function-role message whose preceding upstream message is absent or not
\* user-role adds a new user-role message whose content is exactly that tool_result.
C1_ToolResultPlacement ==
    Translated =>
        /\ \A i \in 1..Len(Result.messages) :
              Result.messages[i].role = "assistant" => ~HoldsToolResult(Result.messages[i])
        /\ (Len(Input) > 0 /\ Last(Input).role \in {"tool", "function"}) =>
              LET before == convertMessages(Front(Input), reqNow).messages
                  idKey == IF Last(Input).role = "tool" THEN "tool_call_id" ELSE "name"
              IN  (before = <<>> \/ Last(before).role # "user") =>
                     /\ Len(Result.messages) = Len(before) + 1
                     /\ Front(Result.messages) = before
                     /\ Last(Result.messages).role = "user"
                     /\ Last(Result.messages).content.t = "array"
                     /\ Last(Result.messages).content.v =
                            <<[type |-> "tool_result",
                               tool_use_id |-> Last(Input)[idKey],
                               content |-> IF IsString(Last(Input).content)
                                           THEN Last(Input).content.v ELSE NullText]>>

\* C1 witness: a tool message right after an assistant message has been translated
C1_Witness ==
    /\ Translated
    /\ Len(Input) = 3
    /\ Input[1].role = "user" /\ Input[2].role = "assistant" /\ Input[3].role = "tool"
    /\ Len(Result.messages) = 3
    /\ Result.messages[2].role = "assistant"
    /\ HoldsToolResult(Result.messages[3])

SystemText(msg) ==
    IF IsString(msg.content) THEN msg.content.v
    ELSE IF IsArray(msg.content)
    THEN LET texts == SelectSeq(msg.content.v, LAMBDA part : part.type = "text")
         IN  Join([i \in 1..Len(texts) |-> texts[i].text], <<"\n">>)
    ELSE <<>>

\* C2 as stated: a non-empty message list gives a non-empty upstream message list,
\* and the system field is present iff the input has a system-role message.
C2_Original ==
    (Translated /\ Len(Input) > 0) =>
        /\ Len(Result.messages) > 0
        /\ Has(Result, "system") <=> \E i \in 1..Len(Input) : Input[i].role = "system"

\* C2 amended: the upstream message list is non-empty iff the input has a message
\* of role user, assistant, tool or function, and the system field is present iff
\* some system-role message has non-empty text (a non-empty string, or an array
\* whose text parts joined by newlines are non-empty).
C2_NonEmptyAndSystem ==
    (Translated /\ Len(Input) > 0) =>
        /\ Len(Result.messages) > 0 <=>
              \E i \in 1..Len(Input) : Input[i].role \in {"user", "assistant", "tool", "function"}
        /\ Has(Result, "system") <=>
              \E i \in 1..Len(Input) : Input[i].role = "system" /\ SystemText(Input[i]) # <<>>

\* C2 witness: a request with an empty-text system message and a user message
C2_Witness ==
    /\ Translated
    /\ Len(Input) = 2
    /\ Input[1].role = "system" /\ SystemText(Input[1]) = <<>>
    /\ Input[2].role = "user"
    /\ Len(Result.messages) = 1
    /\ ~Has(Result, "system")

(***************************************************************************)
(* SpecCvt: one streaming exchange seen from the converter: the caller     *)
(* hands convertStreamEvent the decoded upstream events one by one,        *)
(* threading one state object (server.js lines 287, 322).                  *)
(***************************************************************************)
RequestModel == <<"m">>
RandomHex == {<<"0", "a">>, <<"f", "f">>}

TextDelta(s) == [type |-> "content_block_delta", delta |-> [type |-> "text_delta", text |-> s]]
UpstreamEvents ==
    {[type |-> "message_start"],
     [type |-> "content_block_start",
      content_block |-> [type |-> "tool_use", id |-> <<"t", "1">>, name |-> <<"f">>]],
     [type |-> "content_block_start",
      content_block |-> [type |-> "tool_use", id |-> <<"t", "2">>, name |-> <<"g">>]],
     [type |-> "content_block_start", content_block |-> [type |-> "text"]],
     TextDelta(<<"a">>), TextDelta(<<"b">>), TextDelta(<<>>),
     [type |-> "content_block_delta", delta |-> [type |-> "thinking_delta", thinking |-> <<"h">>]],
     [type |-> "content_block_delta",
      delta |-> [type |-> "input_json_delta", partial_json |-> <<"{">>]],
     [type |-> "content_block_stop"],
     [type |-> "message_delta", delta |-> [stop_reason |-> "end_turn"],
      usage |-> [input_tokens |-> 2, output_tokens |-> 1]],
     [type |-> "message_delta", delta |-> [stop_reason |-> "tool_use"]],
     [type |-> "message_delta", delta |-> EmptyObj, usage |-> [output_tokens |-> 1]],
     [type |-> "message_stop"],
     [type |-> "error", error |-> [type |-> "overloaded_error"]],
     [type |-> "ping"]}

ReqIdle ==
    /\ openaiRequest = [model |-> RequestModel, messages |-> Arr(<<>>), stream |-> TRUE]
    /\ reqNow = 1
    /\ anthropicRequest = <<>>

InitCvt ==
    /\ ReqIdle
    /\ CvtIdle
    /\ SrvIdle
    /\ MsgIdle
    /\ PairIdle
    /\ GateIdle
    /\ ModelsIdle

\* one call of convertStreamEvent
Feed ==
    /\ Len(fed) < MaxEvents
    /\ \E anthropicEvent \in UpstreamEvents, randomHex \in randomBytesDraws(state, RandomHex),
          seconds \in dateNowDraws(state, 1..MaxClock) :
          LET r == convertStreamEvent(anthropicEvent, RequestModel, state, randomHex, seconds)
          IN  /\ state' = r.state
              /\ events' = events \o r.events
              /\ fed' = Append(fed, anthropicEvent)
              /\ perEvent' = Append(perEvent, Len(r.events))
    /\ UNCHANGED <<reqVars, srvVars, msgVars, pairVars, gateVars, modelsVars>>

NextCvt == Feed
SpecCvt == InitCvt /\ [][NextCvt]_vars

\* the chunks the i-th fed event returned
RECURSIVE Sum(_)
Sum(ns) == IF Len(ns) = 0 THEN 0 ELSE ns[1] + Sum(Tail(ns))
ChunksOf(i) ==
    LET first == Sum(SubSeq(perEvent, 1, i - 1)) IN SubSeq(events, first + 1, first + perEvent[i])

Delta(c) == IF c.choices = <<>> THEN EmptyObj ELSE c.choices[1].delta
ContentOf(c) == IF Has(Delta(c), "content") THEN Delta(c).content ELSE <<>>
UpstreamText(e) ==
    IF e.type = "content_block_delta" /\ e.delta.type = "text_delta" THEN e.delta.text ELSE <<>>
ContentsOf(chunks) == Concat([i \in 1..Len(chunks) |-> ContentOf(chunks[i])])

\* C7: the content fields of the emitted chunks, concatenated in emission order, equal
\* the upstream text_delta texts concatenated in arrival order, and each event's own
\* chunks carry exactly that event's text (nothing is held back for a later event).
C7_OrderPreserved ==
    /\ ContentsOf(events) = Concat([i \in 1..Len(fed) |-> UpstreamText(fed[i])])
    /\ \A i \in 1..Len(fed) :
          /\ ContentsOf(ChunksOf(i)) = UpstreamText(fed[i])
          /\ UpstreamText(fed[i]) # <<>> => perEvent[i] = 1

\* C7 witness: two different text deltas were translated one after the other
C7_Witness ==
    /\ Len(fed) = 3
    /\ UpstreamText(fed[2]) = <<"b">> /\ UpstreamText(fed[3]) = <<"a">>
    /\ ContentsOf(events) = <<"b", "a">>

HasRole(c) == Has(Delta(c), "role")
RoleChunks == {i \in 1..Len(events) : HasRole(events[i])}
StreamStarts == {i \in 1..Len(fed) : fed[i].type = "message_start"}

\* C8 as stated: whatever the events of the exchange, exactly one emitted chunk
\* carries the role tag.
C8_Original == fed # <<>> => Cardinality(RoleChunks) = 1

\* C8 amended: the role tag appears in exactly one chunk per message_start event
\* processed, the empty-content chunk emitted for it, and in no chunk of any other
\* event; so exactly once in an exchange with exactly one message_start.
C8_RolePerStreamStart ==
    /\ Cardinality(RoleChunks) = Cardinality(StreamStarts)
    /\ \A i \in 1..Len(fed) :
          IF fed[i].type = "message_start"
          THEN /\ perEvent[i] = 1
               /\ Delta(ChunksOf(i)[1]) = [role |-> "assistant", content |-> <<>>]
          ELSE \A j \in 1..perEvent[i] : ~HasRole(ChunksOf(i)[j])

\* C8 witness: an exchange with one message_start followed by chunk-emitting events
C8_Witness ==
    /\ Len(fed) = 3
    /\ StreamStarts = {1}
    /\ Len(events) = 3
    /\ RoleChunks = {1}

\* C9: every emitted chunk carries the response identifier and creation timestamp
\* that the state holds, and once an event has been processed no later event
\* changes either.
C9_OneIdOneTimestamp ==
    /\ [](fed # <<>> =>
            /\ Has(state, "responseId") /\ Has(state, "created")
            /\ \A i \in 1..Len(events) :
                  events[i].id = state.responseId /\ events[i].created = state.created)
    /\ [][fed # <<>> =>
            state'.responseId = state.responseId /\ state'.created = state.created]_vars

\* C9 witness: the first event emitted nothing, later events emitted chunks
C9_Witness ==
    /\ Len(fed) = 3
    /\ perEvent[1] = 0
    /\ Len(events) >= 2
    /\ events[1].id = events[2].id

HasUsage(c) == Has(c, "usage")
CarriesDelta(c) ==
    /\ c.choices # <<>>
    /\ \/ DOMAIN Delta(c) \cap {"content", "reasoning_content", "tool_calls"} # {}
       \/ c.choices[1].finish_reason # JSNull

\* C10: a chunk with a usage field has an empty choices list, and a chunk carrying a
\* content, reasoning or tool-call delta, or a finish reason, has no usage field.
C10_UsageIsolated ==
    \A i \in 1..Len(events) :
        /\ HasUsage(events[i]) => events[i].choices = <<>>
        /\ CarriesDelta(events[i]) => ~HasUsage(events[i])

\* C10 witness: a message_delta with stop reason and usage gave a terminal chunk and
\* then a usage chunk
C10_Witness ==
    /\ Len(fed) >= 1
    /\ fed[Len(fed)].type = "message_delta"
    /\ perEvent[Len(fed)] = 2
    /\ CarriesDelta(events[Len(events) - 1]) /\ ~HasUsage(events[Len(events) - 1])
    /\ HasUsage(events[Len(events)]) /\ events[Len(events)].choices = <<>>

IsToolStart(e) ==
    /\ e.type = "content_block_start"
    /\ Has(e, "content_block")
    /\ e.content_block.type = "tool_use"
ToolStarts == {i \in 1..Len(fed) : IsToolStart(fed[i])}
\* how many tool_use blocks started before the i-th event
ToolStartsBefore(i) == Cardinality({j \in ToolStarts : j < i})
\* a chunk that introduces a tool call: its tool-call delta names an id
IntroducesToolCall(c) ==
    /\ Has(Delta(c), "tool_calls")
    /\ Has(Delta(c).tool_calls[1], "id")
ToolCallIntroductions == {i \in 1..Len(events) : IntroducesToolCall(events[i])}

\* C11: the n-th tool_use content_block_start of an exchange (n from 0) returns
\* exactly one chunk, whose delta introduces one tool call at index n with that
\* block's id and name and empty arguments; no other event introduces a tool call,
\* and the state's counter holds the number of tool calls started so far, so an
\* index is never handed out twice.
C11_ToolCallIndex ==
    /\ \A i \in ToolStarts :
          /\ perEvent[i] = 1
          /\ ChunksOf(i)[1].choices[1].finish_reason = JSNull
          /\ Delta(ChunksOf(i)[1]) =
                [tool_calls |-> <<[index |-> ToolStartsBefore(i),
                                   id |-> fed[i].content_block.id,
                                   type |-> "function",
                                   function |-> [name |-> fed[i].content_block.name,
                                                 arguments |-> <<>>]]>>]
    /\ Cardinality(ToolCallIntroductions) = Cardinality(ToolStarts)
    /\ ToolStarts # {} =>
          Has(state, "toolCallIndex") /\ state.toolCallIndex = Cardinality(ToolStarts)

\* C11 witness: a second tool_use block, of another id, started after the first one
\* and got index 1
C11_Witness ==
    /\ Len(fed) = 3
    /\ ToolStarts = {1, 3}
    /\ fed[1].content_block.id # fed[3].content_block.id
    /\ Delta(ChunksOf(3)[1]).tool_calls[1].index = 1
    /\ Delta(ChunksOf(3)[1]).tool_calls[1].id = fed[3].content_block.id

IsArgumentFragment(e) ==
    /\ e.type = "content_block_delta"
    /\ Has(e, "delta")
    /\ e.delta.type = "input_json_delta"
    /\ TruthyStr(e.delta, "partial_json")
Max(S) == CHOOSE x \in S : \A y \in S : x >= y
\* before the i-th event no tool call is open: no tool_use block has started yet, or
\* a content_block_stop came after the last one that started
NoToolCallOpenAt(i) ==
    LET marks == {j \in 1..(i - 1) : IsToolStart(fed[j]) \/ fed[j].type = "content_block_stop"}
    IN  marks = {} \/ fed[Max(marks)].type = "content_block_stop"
ToolCallCounter(st) == IF Has(st, "toolCallIndex") THEN st.toolCallIndex ELSE 0

\* C13: a non-empty input_json_delta that arrives while no tool call is open (before
\* any tool_use block start, or after the content_block_stop that closed it) returns
\* zero chunks, and the tool-call counter still counts the tool_use starts only.
C13_StrayFragmentDropped ==
    /\ \A i \in 1..Len(fed) :
          (IsArgumentFragment(fed[i]) /\ NoToolCallOpenAt(i)) => perEvent[i] = 0
    /\ ToolCallCounter(state) = Cardinality(ToolStarts)

\* C13 witness: a tool call was opened and closed, and a fragment arrived after that
C13_Witness ==
    /\ Len(fed) = 3
    /\ IsToolStart(fed[1])
    /\ fed[2].type = "content_block_stop"
    /\ IsArgumentFragment(fed[3])
    /\ perEvent = <<1, 0, 0>>
    /\ ToolCallCounter(state) = 1

(***************************************************************************)
(* SpecMsg: one upstream message.  The upstream either answers it whole    *)
(* (handleNonStreamingRequest hands it to convertAnthropicToOpenAI) or     *)
(* streams it the way the Messages API does: message_start, then for each  *)
(* content block its content_block_start, its deltas and its               *)
(* content_block_stop, then message_delta with the stop reason and the     *)
(* usage, then message_stop (handleStreamingRequest hands each event to    *)
(* convertStreamEvent).  The stop reason and the usage are the upstream's  *)
(* choice at the moment it ends the message.                               *)
(***************************************************************************)
MaxBlocks == 2      \* most content blocks of an upstream message
MaxPieces == 2      \* most fragments a tool input is streamed in

TextBlock(s) == [type |-> "text", text |-> s]
ThinkingBlock(s) == [type |-> "thinking", thinking |-> s]
ContentBlocks ==
    {TextBlock(<<"a">>), TextBlock(<<"b">>), TextBlock(<<>>), ThinkingBlock(<<"h">>),
     [type |-> "tool_use", id |-> <<"t", "1">>, name |-> <<"f">>, input |-> [q |-> <<"x">>]],
     [type |-> "tool_use", id |-> <<"t", "2">>, name |-> <<"g">>]}
Contents == UNION {[1..n -> ContentBlocks] : n \in 0..MaxBlocks}
MessageHead == [id |-> <<"msg_1">>, type |-> "message", model |-> <<"claude">>]
\* a message without a content field, or with a list of blocks
UpstreamMessages == {MessageHead} \cup {MessageHead @@ [content |-> c] : c \in Contents}

StopReasons ==
    {"end_turn", "stop_sequence", "max_tokens", "tool_use", "pause_turn", "constructor"}
ScenarioUsage == [input_tokens |-> 10, output_tokens |-> 5, cache_read_input_tokens |-> 3]
Usages ==
    {ScenarioUsage,
     [input_tokens |-> 2, output_tokens |-> 1],
     [input_tokens |-> 2, output_tokens |-> 1, cache_creation_input_tokens |-> 4],
     [input_tokens |-> 2, output_tokens |-> 1,
      cache_read_input_tokens |-> 0, cache_creation_input_tokens |-> 0],
     [output_tokens |-> 1]}
\* how the upstream ends a message: stop_reason and usage, each present or not;
\* when both are present, every stop reason with one usage and every usage with
\* one stop reason
MessageEnds ==
    {EmptyObj}
        \cup {[stop_reason |-> r] : r \in StopReasons}
        \cup {[usage |-> u] : u \in Usages}
        \cup {[stop_reason |-> r, usage |-> ScenarioUsage] : r \in StopReasons}
        \cup {[stop_reason |-> "end_turn", usage |-> u] : u \in Usages}

RECURSIVE Fragments(_, _)
\* a non-empty text cut into at most k non-empty fragments
Fragments(text, k) ==
    IF k <= 1 \/ Len(text) <= 1 THEN <<text>>
    ELSE <<SubSeq(text, 1, 1)>> \o Fragments(Tail(text), k - 1)

ContentBlockStop == [type |-> "content_block_stop"]
ThinkingDelta(s) ==
    [type |-> "content_block_delta", delta |-> [type |-> "thinking_delta", thinking |-> s]]
InputJsonDelta(s) ==
    [type |-> "content_block_delta", delta |-> [type |-> "input_json_delta", partial_json |-> s]]

\* the events the upstream streams for one content block
blockEvents(block, k) ==
    IF block.type = "text"
    THEN <<[type |-> "content_block_start", content_block |-> [type |-> "text"]],
           TextDelta(block.text), ContentBlockStop>>
    ELSE IF block.type = "thinking"
    THEN <<[type |-> "content_block_start", content_block |-> [type |-> "thinking"]],
           ThinkingDelta(block.thinking), ContentBlockStop>>
    ELSE LET frags == Fragments(JSONstringify(IF Has(block, "input") THEN block.input
                                              ELSE EmptyObj), k)
         IN  <<[type |-> "content_block_start",
                content_block |-> [type |-> "tool_use", id |-> block.id, name |-> block.name]]>>
                 \o [i \in 1..Len(frags) |-> InputJsonDelta(frags[i])]
                 \o <<ContentBlockStop>>

contentOf(message) == IF Has(message, "content") THEN message.content ELSE <<>>

\* the events of a streamed message up to its last content_block_stop
bodyEvents(message, k) ==
    <<[type |-> "message_start"]>>
        \o Concat([i \in 1..Len(contentOf(message)) |-> blockEvents(contentOf(message)[i], k)])

messageDeltaEvent(end) ==
    LET base == [type |-> "message_delta",
                 delta |-> IF Has(end, "stop_reason") THEN [stop_reason |-> end.stop_reason]
                           ELSE EmptyObj]
    IN  IF Has(end, "usage") THEN base @@ [usage |-> end.usage] ELSE base

InitMsg ==
    /\ ReqIdle
    /\ CvtIdle
    /\ SrvIdle
    /\ PairIdle
    /\ GateIdle
    /\ ModelsIdle
    /\ upstreamMessage \in UpstreamMessages
    /\ pieces \in 1..MaxPieces
    /\ openaiResponse = <<>>

\* server.js line 322: one decoded event goes through convertStreamEvent
Deliver(anthropicEvent) ==
    \E randomHex \in randomBytesDraws(state, RandomHex),
       seconds \in dateNowDraws(state, 1..MaxClock) :
        LET r == convertStreamEvent(anthropicEvent, RequestModel, state, randomHex, seconds)
        IN  /\ state' = r.state
            /\ events' = events \o r.events
            /\ fed' = Append(fed, anthropicEvent)
            /\ perEvent' = Append(perEvent, Len(r.events))

\* server.js lines 236-248: the upstream answers the whole message at once
AnswerWhole ==
    /\ fed = <<>>
    /\ openaiResponse = <<>>
    /\ \E end \in MessageEnds, randomHex \in RandomHex, seconds \in 1..MaxClock :
          /\ upstreamMessage' = upstreamMessage @@ end
          /\ openaiResponse' = <<convertAnthropicToOpenAI(upstreamMessage @@ end, RequestModel,
                                                          randomHex, seconds)>>
    /\ UNCHANGED <<pieces, reqVars, cvtVars, srvVars, pairVars, gateVars, modelsVars>>

\* the upstream streams the next event of the message's blocks
StreamBody ==
    /\ openaiResponse = <<>>
    /\ Len(fed) < Len(bodyEvents(upstreamMessage, pieces))
    /\ Deliver(bodyEvents(upstreamMessage, pieces)[Len(fed) + 1])
    /\ UNCHANGED <<msgVars, reqVars, srvVars, pairVars, gateVars, modelsVars>>

\* the upstream ends the message: message_delta
StreamEnd ==
    /\ openaiResponse = <<>>
    /\ Len(fed) = Len(bodyEvents(upstreamMessage, pieces))
    /\ \E end \in MessageEnds :
          /\ upstreamMessage' = upstreamMessage @@ end
          /\ Deliver(messageDeltaEvent(end))
    /\ UNCHANGED <<pieces, openaiResponse, reqVars, srvVars, pairVars, gateVars, modelsVars>>

\* the upstream closes the stream of the message: message_stop
StreamStop ==
    /\ openaiResponse = <<>>
    /\ Len(fed) = Len(bodyEvents(upstreamMessage, pieces)) + 1
    /\ Deliver([type |-> "message_stop"])
    /\ UNCHANGED <<msgVars, reqVars, srvVars, pairVars, gateVars, modelsVars>>

NextMsg ==
    \/ AnswerWhole
    \/ StreamBody
    \/ StreamEnd
    \/ StreamStop
SpecMsg == InitMsg /\ [][NextMsg]_vars

\* the message_delta of the streamed message has been translated
MessageEnded == Len(fed) > Len(bodyEvents(upstreamMessage, pieces))
ArgumentFragments == SelectSeq(fed, IsArgumentFragment)
FinishReasonOf(c) == c.choices[1].finish_reason

\* C12: for the stream message_start, content_block_start(tool_use), k >= 1 non-empty
\* input_json_delta fragments, content_block_stop, message_delta(stop_reason
\* tool_use, no usage), exactly k + 3 chunks are emitted, in this order: the role
\* chunk, the chunk introducing the tool call at index 0, k chunks at index 0 each
\* carrying only its own fragment, and a chunk with an empty delta and finish
\* reason tool_calls; no earlier chunk has a finish reason.
C12_ToolCallStream ==
    (/\ Len(contentOf(upstreamMessage)) = 1
     /\ contentOf(upstreamMessage)[1].type = "tool_use"
     /\ MessageEnded
     /\ Has(upstreamMessage, "stop_reason")
     /\ upstreamMessage.stop_reason = "tool_use"
     /\ ~Has(upstreamMessage, "usage"))
    => LET k == Len(ArgumentFragments)
           block == contentOf(upstreamMessage)[1]
       IN  /\ k >= 1
           /\ Len(events) = k + 3
           /\ Delta(events[1]) = [role |-> "assistant", content |-> <<>>]
           /\ Delta(events[2]) =
                 [tool_calls |-> <<[index |-> 0, id |-> block.id, type |-> "function",
                                    function |-> [name |-> block.name,
                                                  arguments |-> <<>>]]>>]
           /\ \A j \in 1..k :
                 Delta(events[2 + j]) =
                     [tool_calls |-> <<[index |-> 0,
                                        function |-> [arguments |->
                                            ArgumentFragments[j].delta.partial_json]]>>]
           /\ Delta(events[k + 3]) = EmptyObj
           /\ FinishReasonOf(events[k + 3]) = "tool_calls"
           /\ \A j \in 1..(k + 2) : FinishReasonOf(events[j]) = JSNull

\* C12 witness: a tool call streamed in two fragments, to the end of its stream
C12_Witness ==
    /\ Len(fed) = 7
    /\ fed[1].type = "message_start"
    /\ IsToolStart(fed[2])
    /\ IsArgumentFragment(fed[3]) /\ IsArgumentFragment(fed[4])
    /\ fed[3].delta.partial_json # fed[4].delta.partial_json
    /\ fed[5].type = "content_block_stop"
    /\ fed[6] = [type |-> "message_delta", delta |-> [stop_reason |-> "tool_use"]]
    /\ fed[7].type = "message_stop"
    /\ Len(events) = 5
    /\ FinishReasonOf(events[5]) = "tool_calls"

FinishReasons == {"stop", "length", "tool_calls"}
\* the finish reason the mapping table of the specification gives a stop reason
TableFinishReason(stopReason) ==
    IF stopReason = "max_tokens" THEN "length"
    ELSE IF stopReason = "tool_use" THEN "tool_calls"
    ELSE "stop"
\* the chunks of the stream that are not usage chunks
ChoiceChunks == {i \in 1..Len(events) : events[i].choices # <<>>}

\* C14 as stated: whatever the upstream stop reason, the finish reason of the
\* non-streaming response and of the terminal chunk of a stream is one of stop,
\* length, tool_calls: length for max_tokens, tool_calls for tool_use, stop for
\* end_turn, stop_sequence and anything else.
C14_Original ==
    /\ openaiResponse # <<>> =>
          /\ FinishReasonOf(openaiResponse[1]) \in FinishReasons
          /\ Has(upstreamMessage, "stop_reason") =>
                FinishReasonOf(openaiResponse[1]) =
                    TableFinishReason(upstreamMessage.stop_reason)
    /\ \A i \in ChoiceChunks : FinishReasonOf(events[i]) \in FinishReasons \cup {JSNull}
    /\ (MessageEnded /\ Has(upstreamMessage, "stop_reason")) =>
          \E i \in ChoiceChunks :
              FinishReasonOf(events[i]) = TableFinishReason(upstreamMessage.stop_reason)

(***************************************************************************)
(* SpecPair: two streaming exchanges in flight at once.  Each call of      *)
(* handleStreamingRequest creates its own state object (server.js line     *)
(* 287) and hands it to every convertStreamEvent call of its read loop     *)
(* (line 322); the loops of the two calls interleave at their awaits, one  *)
(* convertStreamEvent call at a time.                                      *)
(***************************************************************************)
MaxPairEvents == 2  \* most events of each of the two exchanges

Exchanges == {1, 2}
PairEvents ==
    {[type |-> "content_block_start",
      content_block |-> [type |-> "tool_use", id |-> <<"t", "1">>, name |-> <<"f">>]],
     InputJsonDelta(<<"{">>),
     ContentBlockStop,
     [type |-> "message_delta", delta |-> [stop_reason |-> "end_turn"],
      usage |-> [input_tokens |-> 2, output_tokens |-> 1]]}

InitPair ==
    /\ ReqIdle
    /\ CvtIdle
    /\ SrvIdle
    /\ MsgIdle
    /\ GateIdle
    /\ ModelsIdle
    /\ exchanges = [x \in Exchanges |->
                       [state |-> EmptyObj, fed |-> <<>>, events |-> <<>>, draw |-> <<>>]]

\* the state object that reaches convertStreamEvent in an exchange, all others
\* standing still
ownState_Shared(exchange) == exchanges[1].state

\* server.js lines 287 and 322: the state object of an exchange is the one its own
\* handleStreamingRequest call created
ownState(exchange) == exchanges[exchange].state

\* one convertStreamEvent call of the read loop of an exchange; draw keeps what
\* the exchange's first call got from crypto.randomBytes and Date.now
FeedExchange(exchange) ==
    /\ Len(exchanges[exchange].fed) < MaxPairEvents
    /\ \E anthropicEvent \in PairEvents,
          randomHex \in randomBytesDraws(ownState(exchange), RandomHex),
          seconds \in dateNowDraws(ownState(exchange), 1..MaxClock) :
          LET r == convertStreamEvent(anthropicEvent, RequestModel, ownState(exchange),
                                      randomHex, seconds)
          IN  exchanges' = [exchanges EXCEPT ![exchange] =
                  [state |-> r.state,
                   fed |-> Append(@.fed, anthropicEvent),
                   events |-> @.events \o r.events,
                   draw |-> IF @.draw = <<>>
                            THEN <<[randomHex |-> randomHex, seconds |-> seconds]>>
                            ELSE @.draw]]
    /\ UNCHANGED <<reqVars, cvtVars, srvVars, msgVars, gateVars, modelsVars>>

NextPair == \E exchange \in Exchanges : FeedExchange(exchange)
SpecPair == InitPair /\ [][NextPair]_vars

RECURSIVE runAlone(_, _, _, _)
\* the chunks and the state of an exchange that runs with no other exchange around:
\* its events go through convertStreamEvent one after the other, from an empty state
runAlone(anthropicEvents, st, chunks, draw) ==
    IF anthropicEvents = <<>> THEN [state |-> st, events |-> chunks]
    ELSE LET r == convertStreamEvent(Head(anthropicEvents), RequestModel, st,
                                     draw.randomHex, draw.seconds)
         IN  runAlone(Tail(anthropicEvents), r.state, chunks \o r.events, draw)

\* C16: under every interleaving of the calls of two exchanges, the chunks emitted
\* for each exchange and the state it is left with (response identifier, creation
\* timestamp, tool-call counter, open-tool-call marker, usage) are those the same
\* events give when the exchange runs alone with the same random identifier and clock.
C16_ExchangesIsolated ==
    \A x \in Exchanges :
        exchanges[x].fed # <<>> =>
            LET alone == runAlone(exchanges[x].fed, EmptyObj, <<>>, exchanges[x].draw[1])
            IN  /\ exchanges[x].events = alone.events
                /\ exchanges[x].state = alone.state

\* C16 witness: both exchanges are under way with different identifiers, each has
\* opened a tool call and streamed a fragment of it, and each uses index 0
C16_Witness ==
    /\ \A x \in Exchanges :
          /\ Len(exchanges[x].fed) = 2
          /\ IsToolStart(exchanges[x].fed[1])
          /\ IsArgumentFragment(exchanges[x].fed[2])
          /\ Len(exchanges[x].events) = 2
          /\ Delta(exchanges[x].events[2]).tool_calls[1].index = 0
          /\ exchanges[x].state.toolCallIndex = 1
    /\ exchanges[1].state.responseId # exchanges[2].state.responseId
    /\ exchanges[1].events[1].id # exchanges[2].events[1].id

(***************************************************************************)
(* server.js: POST /v1/chat/completions, handleNonStreamingRequest and     *)
(* handleStreamingRequest.                                                 *)
(*                                                                         *)
(* The upstream body is a sequence of tokens: a newline, or the text of    *)
(* one line without its newline (an `event:` line, or a `data:` line with  *)
(* its payload).  A read hands over any non-empty prefix of what is in     *)
(* flight, so a read may end between the two newlines of a separator.      *)
(***************************************************************************)
NL == [tok |-> "nl"]
EventLine == [tok |-> "event"]
\* `data: ` followed by the JSON text of an event, by text that is not JSON, or by [DONE]
DataLine(anthropicEvent) == [tok |-> "data", payload |-> [kind |-> "json", event |-> anthropicEvent]]
BadDataLine == [tok |-> "data", payload |-> [kind |-> "invalid"]]
DoneLine == [tok |-> "data", payload |-> [kind |-> "done"]]

\* buffer.lastIndexOf('\n\n'), 0 standing for -1
indexOfBoundary_Last(buf) ==
    LET hits == {i \in 1..(Len(buf) - 1) : buf[i] = NL /\ buf[i + 1] = NL}
    IN  IF hits = {} THEN 0 ELSE Max(hits)

\* buffer.indexOf('\n\n'), 0 standing for -1
indexOfBoundary(buf) ==
    LET hits == {i \in 1..(Len(buf) - 1) : buf[i] = NL /\ buf[i + 1] = NL}
    IN  IF hits = {} THEN 0 ELSE Min(hits)

RECURSIVE split(_)
\* eventBlock.split('\n')
split(tokens) ==
    LET nls == {i \in 1..Len(tokens) : tokens[i] = NL}
    IN  IF nls = {} THEN <<tokens>>
        ELSE <<SubSeq(tokens, 1, Min(nls) - 1)>>
                 \o split(SubSeq(tokens, Min(nls) + 1, Len(tokens)))

RECURSIVE dataOfLines(_, _)
\* lines 311-317: the data of the last `data:` line; text made of several tokens run
\* together is not JSON
dataOfLines(lines, data) ==
    IF Len(lines) = 0 THEN data
    ELSE LET line == Head(lines)
             next == IF Len(line) > 0 /\ line[1].tok = "data"
                     THEN IF Len(line) = 1 THEN line[1].payload ELSE [kind |-> "invalid"]
                     ELSE data
         IN  dataOfLines(Tail(lines), next)

DoneFrame == [kind |-> "done"]
DataFrame(json) == [kind |-> "data", json |-> json]
IsErrorFrame(frame) == frame.kind = "data" /\ Has(frame.json, "error")
IsChunkFrame(frame) == frame.kind = "data" /\ ~Has(frame.json, "error")

\* lines 319-334: what one decoded event block writes, and the state it leaves
handleEventBlock(eventBlock, requestModel, st, randomHex, seconds) ==
    LET data == dataOfLines(split(eventBlock), [kind |-> "empty"])
    IN  IF data.kind = "json"
        THEN LET r == convertStreamEvent(data.event, requestModel, st, randomHex, seconds)
             IN  [frames |-> [i \in 1..Len(r.events) |-> DataFrame(r.events[i])]
                                \o (IF data.event.type = "message_stop"
                                    THEN <<DoneFrame>> ELSE <<>>),
                  state |-> r.state]
        ELSE [frames |-> <<>>, state |-> st]

RECURSIVE drainBuffer(_, _, _, _, _, _)
\* the while loop of lines 303-335
drainBuffer(buf, requestModel, st, frames, randomHex, seconds) ==
    LET boundary == indexOfBoundary(buf)
    IN  IF boundary = 0 THEN [buffer |-> buf, state |-> st, frames |-> frames]
        ELSE LET r == handleEventBlock(SubSeq(buf, 1, boundary - 1), requestModel, st,
                                       randomHex, seconds)
             IN  drainBuffer(SubSeq(buf, boundary + 2, Len(buf)), requestModel, r.state,
                             frames \o r.frames, randomHex, seconds)

\* the buffer forgetting the remainder of the earlier reads
appendChunk_Reset(buf, value) == value

\* lines 298-299: buffer += decoder.decode(value, { stream: true })
appendChunk(buf, value) == buf \o value

UpstreamErrorText(status) == <<"Upstream error: ">> \o NumToStr(status)
\* errorData.error?.message || `Upstream error: ${response.status}`
upstreamErrorMessage(errorData, status) ==
    IF Has(errorData, "error") /\ TruthyStr(errorData.error, "message")
    THEN errorData.error.message ELSE UpstreamErrorText(status)

\* lines 275-279, not-ok upstream answer of a streaming request
notOkFrames(errorData, status) ==
    <<DataFrame(createErrorResponse(upstreamErrorMessage(errorData, status), "api_error")),
      DoneFrame>>

\* the catch block of handleStreamingRequest without its [DONE]
streamCatchFrames_NoDone(message) == <<DataFrame(createErrorResponse(message, "api_error"))>>

\* lines 344-345, the catch block of handleStreamingRequest
streamCatchFrames(message) ==
    <<DataFrame(createErrorResponse(message, "api_error")), DoneFrame>>

\* lines 207-208, the catch block of the route once headers are sent
routeCatchFrames(message) ==
    <<DataFrame(createErrorResponse(message, "api_error")), DoneFrame>>

(***************************************************************************)
(* The environment of the server                                           *)
(***************************************************************************)
UserHello == [role |-> "user", content |-> Str(<<"u">>)]
ServerRequests ==
    {[model |-> RequestModel, messages |-> Arr(<<UserHello>>), stream |-> TRUE],
     [model |-> RequestModel, messages |-> Arr(<<UserHello>>)],
     [model |-> RequestModel],
     [model |-> RequestModel, stream |-> TRUE],
     [model |-> RequestModel, messages |-> Null],
     [model |-> RequestModel, messages |-> Str(<<>>)],
     [model |-> RequestModel, messages |-> Str(<<"h", "i">>)],
     [model |-> RequestModel, messages |-> Str(<<"h", "i">>), stream |-> TRUE]}

FailureStatuses == {429, 503}
\* what response.json().catch(() => ({})) answers for a not-ok upstream answer
ErrorBodies == {EmptyObj, [error |-> [type |-> "rate_limit_error", message |-> <<"slow down">>]]}
FetchFailed == <<"fetch failed">>
ReadFailed == <<"terminated">>

ServerEvents ==
    {[type |-> "message_start"],
     TextDelta(<<"a">>),
     [type |-> "message_delta", delta |-> [stop_reason |-> "end_turn"],
      usage |-> [input_tokens |-> 2, output_tokens |-> 1]],
     [type |-> "message_stop"]}
\* the SSE frames the upstream may send
UpstreamFrames ==
    {<<EventLine, NL, DataLine(e), NL, NL>> : e \in ServerEvents}
        \cup {<<BadDataLine, NL, NL>>, <<DoneLine, NL, NL>>}

AnthropicResponses ==
    {[id |-> <<"msg_1">>, type |-> "message", model |-> <<"claude">>,
      content |-> <<[type |-> "text", text |-> <<"H", "i", "!">>]>>,
      stop_reason |-> "end_turn",
      usage |-> [input_tokens |-> 10, output_tokens |-> 5, cache_read_input_tokens |-> 3]],
     [id |-> <<"msg_2">>, type |-> "message", model |-> <<"claude">>,
      content |-> <<[type |-> "thinking", thinking |-> <<"h">>],
                    [type |-> "tool_use", id |-> <<"t", "1">>, name |-> <<"f">>,
                     input |-> [q |-> <<"x">>]]>>,
      stop_reason |-> "tool_use"]}
AnthropicErrors ==
    {[type |-> "error", error |-> [type |-> "overloaded_error", message |-> <<"busy">>]],
     [type |-> "error"]}

(***************************************************************************)
(* SpecSrv: one request to POST /v1/chat/completions                       *)
(***************************************************************************)
InitSrv ==
    /\ openaiRequest \in ServerRequests
    /\ reqNow = 1
    /\ anthropicRequest = <<>>
    /\ CvtIdle
    /\ SrvIdle
    /\ MsgIdle
    /\ PairIdle
    /\ GateIdle
    /\ ModelsIdle

requestModelOf(request) == IF Has(request, "model") THEN request.model ELSE <<>>

\* the test of line 182 without Array.isArray
messagesInvalid_NoArrayTest(request) ==
    ~Has(request, "messages") \/ ~Truthy(request.messages)

\* line 182: !openaiRequest.messages || !Array.isArray(openaiRequest.messages)
messagesInvalid(request) ==
    \/ ~Has(request, "messages")
    \/ ~Truthy(request.messages)
    \/ ~IsArray(request.messages)

\* lines 177-200 up to the first await: validation, conversion, and for a streaming
\* request the headers of lines 256-260
PostChatCompletions ==
    /\ pc = "idle"
    /\ IF messagesInvalid(openaiRequest)
       THEN /\ statusCode' = 400
            /\ jsonBody' = <<createErrorResponse(
                               <<"messages is required and must be an array">>,
                               "invalid_request_error")>>
            /\ headersSent' = TRUE
            /\ ended' = TRUE
            /\ pc' = "returned"
            /\ UNCHANGED anthropicRequest
       ELSE /\ anthropicRequest' = <<convertOpenAIToAnthropic(openaiRequest, reqNow)>>
            /\ IF Has(openaiRequest, "stream") /\ openaiRequest.stream
               THEN headersSent' = TRUE /\ pc' = "fetch_stream"
               ELSE headersSent' = FALSE /\ pc' = "fetch"
            /\ UNCHANGED <<statusCode, jsonBody, ended>>
    /\ UNCHANGED <<openaiRequest, reqNow, restVars, written, buffer, streamState,
                   upstreamStatus, inflight, upSent, upClosed, clientOpen, consumed, splitAt>>

\* lines 202-213, the catch block of the route
RouteCatch(message) ==
    IF headersSent
    THEN /\ written' = written \o routeCatchFrames(message)
         /\ ended' = TRUE
         /\ UNCHANGED <<statusCode, jsonBody, headersSent>>
    ELSE /\ statusCode' = 500
         /\ jsonBody' = <<createErrorResponse(message, "api_error")>>
         /\ headersSent' = TRUE
         /\ ended' = TRUE
         /\ UNCHANGED written

\* line 220: fetch rejects
FetchRejects ==
    /\ pc = "fetch"
    /\ RouteCatch(FetchFailed)
    /\ pc' = "caught"
    /\ UNCHANGED <<reqVars, restVars, buffer, streamState, upstreamStatus, inflight, upSent,
                   upClosed, clientOpen, consumed, splitAt>>

\* lines 230-234: the upstream answers with a failure status
FetchNotOk ==
    /\ pc = "fetch"
    /\ \E status \in FailureStatuses, errorData \in ErrorBodies :
          /\ upstreamStatus' = status
          /\ RouteCatch(upstreamErrorMessage(errorData, status))
    /\ pc' = "caught"
    /\ UNCHANGED <<reqVars, restVars, buffer, streamState, inflight, upSent, upClosed,
                   clientOpen, consumed, splitAt>>

\* lines 236-244: the upstream answers 200 with an error-typed body
FetchOkErrorBody ==
    /\ pc = "fetch"
    /\ \E anthropicResponse \in AnthropicErrors :
          /\ upstreamStatus' = 200
          /\ statusCode' = 400
          /\ jsonBody' = <<createErrorResponse(
                IF Has(anthropicResponse, "error") /\ TruthyStr(anthropicResponse.error, "message")
                THEN anthropicResponse.error.message ELSE <<"Unknown error">>,
                IF Has(anthropicResponse, "error") /\ Has(anthropicResponse.error, "type")
                THEN anthropicResponse.error.type ELSE "api_error")>>
    /\ headersSent' = TRUE
    /\ ended' = TRUE
    /\ pc' = "returned"
    /\ UNCHANGED <<reqVars, restVars, written, buffer, streamState, inflight, upSent,
                   upClosed, clientOpen, consumed, splitAt>>

\* lines 236-248: the upstream answers 200 with a message
FetchOk ==
    /\ pc = "fetch"
    /\ \E anthropicResponse \in AnthropicResponses, randomHex \in RandomHex,
          seconds \in 1..MaxClock :
          /\ upstreamStatus' = 200
          /\ jsonBody' = <<convertAnthropicToOpenAI(anthropicResponse,
                               requestModelOf(openaiRequest), randomHex, seconds)>>
    /\ headersSent' = TRUE
    /\ ended' = TRUE
    /\ pc' = "returned"
    /\ UNCHANGED <<reqVars, restVars, statusCode, written, buffer, streamState, inflight,
                   upSent, upClosed, clientOpen, consumed, splitAt>>

\* line 263: fetch rejects after the streaming headers were flushed
StreamFetchRejects ==
    /\ pc = "fetch_stream"
    /\ RouteCatch(FetchFailed)
    /\ pc' = "caught"
    /\ UNCHANGED <<reqVars, restVars, buffer, streamState, upstreamStatus, inflight, upSent,
                   upClosed, clientOpen, consumed, splitAt>>

\* lines 273-281
StreamFetchNotOk ==
    /\ pc = "fetch_stream"
    /\ \E status \in FailureStatuses, errorData \in ErrorBodies :
          /\ upstreamStatus' = status
          /\ written' = written \o notOkFrames(errorData, status)
    /\ ended' = TRUE
    /\ pc' = "returned"
    /\ UNCHANGED <<reqVars, restVars, headersSent, statusCode, jsonBody, buffer, streamState,
                   inflight, upSent, upClosed, clientOpen, consumed, splitAt>>

\* lines 284-287
StreamFetchOk ==
    /\ pc = "fetch_stream"
    /\ upstreamStatus' = 200
    /\ buffer' = <<>>
    /\ streamState' = EmptyObj
    /\ pc' = "read"
    /\ UNCHANGED <<reqVars, restVars, headersSent, statusCode, jsonBody, written, ended,
                   inflight, upSent, upClosed, clientOpen, consumed, splitAt>>

\* the upstream sends one more SSE frame
UpstreamSend ==
    /\ pc = "read"
    /\ ~upClosed
    /\ upSent < MaxFrames
    /\ \E frame \in UpstreamFrames : inflight' = inflight \o frame
    /\ upSent' = upSent + 1
    /\ UNCHANGED <<reqVars, restVars, pc, headersSent, statusCode, jsonBody, written, ended,
                   buffer, streamState, upstreamStatus, upClosed, clientOpen, consumed, splitAt>>

\* the upstream ends its body
UpstreamClose ==
    /\ pc = "read"
    /\ ~upClosed
    /\ upClosed' = TRUE
    /\ UNCHANGED <<reqVars, restVars, pc, headersSent, statusCode, jsonBody, written, ended,
                   buffer, streamState, upstreamStatus, inflight, upSent, clientOpen,
                   consumed, splitAt>>

\* the bytes read so far end with the first newline of a separator whose second
\* newline is still to be read
endsInsideSeparator(read, unread) ==
    /\ read # <<>> /\ unread # <<>>
    /\ Last(read) = NL /\ Head(unread) = NL
    /\ Len(read) >= 2 => read[Len(read) - 1] # NL

\* lines 291-335: reader.read() answers a value, which is decoded and drained
ReadValue ==
    /\ pc = "read"
    /\ \E n \in 1..Len(inflight), randomHex \in randomBytesDraws(streamState, RandomHex),
          seconds \in dateNowDraws(streamState, 1..MaxClock) :
          LET r == drainBuffer(appendChunk(buffer, SubSeq(inflight, 1, n)),
                               requestModelOf(openaiRequest), streamState, <<>>,
                               randomHex, seconds)
          IN  /\ inflight' = SubSeq(inflight, n + 1, Len(inflight))
              /\ consumed' = consumed \o SubSeq(inflight, 1, n)
              /\ splitAt' = IF endsInsideSeparator(consumed \o SubSeq(inflight, 1, n),
                                                    SubSeq(inflight, n + 1, Len(inflight)))
                             THEN Len(consumed) + n ELSE splitAt
              /\ buffer' = r.buffer
              /\ streamState' = r.state
              /\ written' = written \o r.frames
    /\ UNCHANGED <<reqVars, restVars, pc, headersSent, statusCode, jsonBody, ended,
                   upstreamStatus, upSent, upClosed, clientOpen>>

\* lines 293-295 and 338-340: reader.read() answers done
ReadDone ==
    /\ pc = "read"
    /\ upClosed
    /\ inflight = <<>>
    /\ written' = Append(written, DoneFrame)
    /\ ended' = TRUE
    /\ pc' = "returned"
    /\ UNCHANGED <<reqVars, restVars, headersSent, statusCode, jsonBody, buffer, streamState,
                   upstreamStatus, inflight, upSent, upClosed, clientOpen, consumed, splitAt>>

\* lines 342-347: reader.read() rejects
ReadRejects ==
    /\ pc = "read"
    /\ written' = written \o streamCatchFrames(ReadFailed)
    /\ ended' = TRUE
    /\ pc' = "caught"
    /\ UNCHANGED <<reqVars, restVars, headersSent, statusCode, jsonBody, buffer, streamState,
                   upstreamStatus, inflight, upSent, upClosed, clientOpen, consumed, splitAt>>

\* the client closes its connection while the streaming response is open; the
\* handlers register no listener for it
ClientDisconnect ==
    /\ pc \in {"fetch_stream", "read"}
    /\ clientOpen
    /\ clientOpen' = FALSE
    /\ UNCHANGED <<reqVars, restVars, pc, headersSent, statusCode, jsonBody, written, ended,
                   buffer, streamState, upstreamStatus, inflight, upSent, upClosed, consumed,
                   splitAt>>

NextSrv ==
    \/ PostChatCompletions
    \/ FetchRejects
    \/ FetchNotOk
    \/ FetchOkErrorBody
    \/ FetchOk
    \/ StreamFetchRejects
    \/ StreamFetchNotOk
    \/ StreamFetchOk
    \/ UpstreamSend
    \/ UpstreamClose
    \/ ReadValue
    \/ ReadDone
    \/ ReadRejects
    \/ ClientDisconnect
SpecSrv == InitSrv /\ [][NextSrv]_vars

Streaming == Has(openaiRequest, "stream") /\ openaiRequest.stream
HandlerLeft == pc \in {"returned", "caught"}
ErrorFrames == {i \in 1..Len(written) : IsErrorFrame(written[i])}

\* what the converter drew for the exchange, read back from its state
DrawnHex ==
    IF Has(streamState, "responseId")
    THEN SubSeq(streamState.responseId, Len(IdPrefix) + 1, Len(streamState.responseId))
    ELSE <<>>
DrawnSeconds == IF Has(streamState, "created") THEN streamState.created ELSE 0
\* the same upstream body handed over by a single read
OneRead ==
    drainBuffer(consumed, requestModelOf(openaiRequest), EmptyObj, <<>>,
                DrawnHex, DrawnSeconds)

\* C15: however the upstream body was cut into reads, the frames written for it,
\* the converter state and the undecoded remainder are those a single read of the
\* same body gives; after the loop only the closing frames follow them.
C15_ReadCutsInvisible ==
    (Streaming /\ upstreamStatus = 200) =>
        /\ buffer = OneRead.buffer
        /\ streamState = OneRead.state
        /\ Len(written) >= Len(OneRead.frames)
        /\ SubSeq(written, 1, Len(OneRead.frames)) = OneRead.frames
        /\ pc = "read" => written = OneRead.frames

\* C15 witness: a read ended between the two newlines of the separator that closes
\* the first event, a later read began with the second one, and the chunk of that
\* event was written, as was the chunk of the event after it
C15_Witness ==
    /\ Streaming
    /\ pc = "read"
    /\ splitAt = 4
    /\ Len(consumed) > splitAt
    /\ consumed[splitAt - 1] = DataLine([type |-> "message_start"])
    /\ consumed[splitAt] = NL /\ consumed[splitAt + 1] = NL
    /\ Len(written) = 2
    /\ IsChunkFrame(written[1]) /\ HasRole(written[1].json)
    /\ IsChunkFrame(written[2]) /\ ContentOf(written[2].json) = <<"a">>
    /\ buffer = <<>>

\* C3 as stated: in a streaming exchange [DONE] is the last frame written before the
\* response is ended, and no chunk or error frame is written after a [DONE] frame.
C3_Original ==
    Streaming =>
        /\ ended => (written # <<>> /\ Last(written) = DoneFrame)
        /\ \A i \in 1..Len(written) : \A j \in (i + 1)..Len(written) :
              written[i] = DoneFrame => written[j].kind # "data"

\* the failures of a streaming exchange after its headers were flushed: a catch
\* block ran, or the upstream answered with a failure status
StreamingFailed ==
    /\ Streaming
    /\ \/ pc = "caught"
       \/ pc = "returned" /\ upstreamStatus \in FailureStatuses

\* C4: when a streaming exchange fails after the response has started, exactly one
\* error-envelope frame is written, [DONE] follows it immediately as the last
\* frame, and the response is ended.
C4_ErrorThenDone ==
    StreamingFailed =>
        /\ ended
        /\ Len(written) >= 2
        /\ IsErrorFrame(written[Len(written) - 1])
        /\ Last(written) = DoneFrame
        /\ Cardinality(ErrorFrames) = 1

\* C4 witness: reading the upstream body failed after a chunk had been forwarded
C4_Witness ==
    /\ StreamingFailed
    /\ upstreamStatus = 200
    /\ Len(written) = 3
    /\ IsChunkFrame(written[1])
    /\ IsErrorFrame(written[2])
    /\ written[3] = DoneFrame
    /\ ended

ErrorDelivered ==
    \/ jsonBody # <<>> /\ Has(jsonBody[1], "error")
    \/ ErrorFrames # {}

\* C5 as stated: when the upstream answers with a failure status, the client gets the
\* error envelope with that same HTTP status; when it answers with an error-typed
\* body, the client gets the error envelope with a failure status.
C5_Original ==
    HandlerLeft =>
        /\ upstreamStatus \in FailureStatuses =>
              ErrorDelivered /\ statusCode = upstreamStatus
        /\ (upstreamStatus = 200 /\ ~Streaming /\ jsonBody # <<>>
              /\ Has(jsonBody[1], "error")) => statusCode >= 400

\* C6 as stated: once the client has disconnected, the handler takes nothing more
\* from the upstream body.
C6_Original == [][~clientOpen => Len(inflight') >= Len(inflight)]_vars

\* C17: a chat-completion request whose messages field is missing or is not an
\* array is answered 400 with the invalid_request_error envelope and nothing else
\* happens: the request translator is never called and no upstream request is made.
C17_MessagesRequired ==
    (~Has(openaiRequest, "messages") \/ ~IsArray(openaiRequest.messages)) =>
        /\ anthropicRequest = <<>>
        /\ upstreamStatus = 0 /\ inflight = <<>> /\ upSent = 0
        /\ written = <<>>
        /\ pc \in {"idle", "returned"}
        /\ pc = "returned" =>
              /\ statusCode = 400
              /\ jsonBody = <<[error |-> [message |-> <<"messages is required and must be an array">>,
                                          type |-> "invalid_request_error",
                                          param |-> JSNull, code |-> JSNull]]>>
              /\ ended

\* C17 witness: a streaming request whose messages field is a non-empty string has
\* been answered 400
C17_Witness ==
    /\ Has(openaiRequest, "messages")
    /\ IsString(openaiRequest.messages)
    /\ openaiRequest.messages.v # <<>>
    /\ Has(openaiRequest, "stream")
    /\ pc = "returned"
    /\ statusCode = 400
    /\ anthropicRequest = <<>>

(***************************************************************************)
(* SpecGate: one POST request to /v1/embeddings or /v1/completions going   *)
(* through the API-key middleware of /v1 (server.js lines 31-59) and then  *)
(* to its route handler (lines 353-368).                                   *)
(***************************************************************************)
startsWith(s, prefix) == Len(s) >= Len(prefix) /\ SubSeq(s, 1, Len(prefix)) = prefix
substring(s, from) == SubSeq(s, from + 1, Len(s))

Bearer == <<"B", "e", "a", "r", "e", "r", " ">>
\* config.apiKey: not configured, or a key
Configs == {[apiKey |-> <<>>], [apiKey |-> <<"k">>]}
AuthorizationHeaders ==
    {EmptyObj} \cup
    {[authorization |-> h] : h \in {Bearer \o <<"k">>, Bearer \o <<"x">>, Bearer, <<"k">>}}
XApiKeyHeaders == {EmptyObj} \cup {("x-api-key" :> h) : h \in {<<"k">>, <<"x">>}}
StubPaths == {"/v1/embeddings", "/v1/completions"}
StubBodies ==
    {EmptyObj,
     [model |-> RequestModel, input |-> <<"h", "i">>],
     [model |-> RequestModel, prompt |-> <<"h", "i">>],
     [model |-> RequestModel, prompt |-> <<"h", "i">>, stream |-> TRUE]}

InitGate ==
    /\ ReqIdle
    /\ CvtIdle
    /\ SrvIdle
    /\ MsgIdle
    /\ PairIdle
    /\ ModelsIdle
    /\ config \in Configs
    /\ req \in {[method |-> "POST", path |-> path, headers |-> a @@ x, body |-> body] :
                   path \in StubPaths, a \in AuthorizationHeaders, x \in XApiKeyHeaders,
                   body \in StubBodies}

\* providedKeyOf looking at the x-api-key header before the authorization header
providedKeyOf_HeaderFirst(headers) ==
    IF TruthyStr(headers, "x-api-key") THEN headers["x-api-key"]
    ELSE IF TruthyStr(headers, "authorization") /\ startsWith(headers.authorization, Bearer)
    THEN substring(headers.authorization, 7)
    ELSE <<>>

\* lines 38-46: the Bearer token of the authorization header, else the x-api-key
\* header, else the empty string
providedKeyOf(headers) ==
    IF TruthyStr(headers, "authorization") /\ startsWith(headers.authorization, Bearer)
    THEN substring(headers.authorization, 7)
    ELSE IF TruthyStr(headers, "x-api-key") THEN headers["x-api-key"]
    ELSE <<>>

\* lines 33 and 48: a key is configured and the provided key is empty or different
keyRefused(cfg, headers) ==
    /\ TruthyStr(cfg, "apiKey")
    /\ \/ providedKeyOf(headers) = <<>>
       \/ providedKeyOf(headers) # cfg.apiKey

\* a handler that rejects only requests without a body
postEmbeddings_BodyChecked(request) ==
    IF request.body = EmptyObj
    THEN [statusCode |-> 501,
          json |-> createErrorResponse(
              <<"Embeddings are not supported by this adapter. Use a dedicated embeddings API.">>,
              "not_implemented")]
    ELSE [statusCode |-> 400,
          json |-> createErrorResponse(<<"unsupported">>, "invalid_request_error")]

\* lines 353-358: the answer of POST /v1/embeddings
postEmbeddings(request) ==
    [statusCode |-> 501,
     json |-> createErrorResponse(
         <<"Embeddings are not supported by this adapter. Use a dedicated embeddings API.">>,
         "not_implemented")]

\* lines 363-368: the answer of POST /v1/completions
postCompletions(request) ==
    [statusCode |-> 501,
     json |-> createErrorResponse(
         <<"Legacy completions API is not supported. Use /v1/chat/completions instead.">>,
         "not_implemented")]

\* res.status(...).json(...)
Answer(answer) ==
    /\ statusCode' = answer.statusCode
    /\ jsonBody' = <<answer.json>>
    /\ headersSent' = TRUE
    /\ ended' = TRUE
    /\ pc' = "returned"

\* lines 31-59: the middleware of /v1
ApiKeyGate ==
    /\ pc = "idle"
    /\ req # EmptyObj
    /\ IF keyRefused(config, req.headers)
       THEN Answer([statusCode |-> 401,
                    json |-> createErrorResponse(<<"Invalid or missing API key">>,
                                                 "authentication_error")])
       ELSE /\ pc' = "route"
            /\ UNCHANGED <<statusCode, jsonBody, headersSent, ended>>
    /\ UNCHANGED <<reqVars, restVars, written, buffer, streamState, upstreamStatus, inflight,
                   upSent, upClosed, clientOpen, consumed, splitAt>>

\* lines 353-358
PostEmbeddings ==
    /\ pc = "route"
    /\ req.method = "POST" /\ req.path = "/v1/embeddings"
    /\ Answer(postEmbeddings(req))
    /\ UNCHANGED <<reqVars, restVars, written, buffer, streamState, upstreamStatus, inflight,
                   upSent, upClosed, clientOpen, consumed, splitAt>>

\* lines 363-368
PostCompletions ==
    /\ pc = "route"
    /\ req.method = "POST" /\ req.path = "/v1/completions"
    /\ Answer(postCompletions(req))
    /\ UNCHANGED <<reqVars, restVars, written, buffer, streamState, upstreamStatus, inflight,
                   upSent, upClosed, clientOpen, consumed, splitAt>>

NextGate == ApiKeyGate \/ PostEmbeddings \/ PostCompletions
SpecGate == InitGate /\ [][NextGate]_vars

StubAnswered == pc = "returned" /\ req # EmptyObj /\ req.path \in StubPaths
NoUpstreamRequest ==
    /\ anthropicRequest = <<>>
    /\ upstreamStatus = 0 /\ inflight = <<>> /\ upSent = 0
NotImplementedAnswer ==
    /\ statusCode = 501
    /\ jsonBody # <<>>
    /\ jsonBody[1].error.type = "not_implemented"
    /\ jsonBody[1].error.param = JSNull /\ jsonBody[1].error.code = JSNull
    /\ jsonBody[1].error.message =
          IF req.path = "/v1/embeddings"
          THEN <<"Embeddings are not supported by this adapter. Use a dedicated embeddings API.">>
          ELSE <<"Legacy completions API is not supported. Use /v1/chat/completions instead.">>

Answered == openaiResponse # <<>>
AnsweredMessage == openaiResponse[1].choices[1].message
BlocksOfType(type) == SelectSeq(contentOf(upstreamMessage), LAMBDA b : b.type = type)
TextOfBlocks == Concat([i \in 1..Len(BlocksOfType("text")) |-> BlocksOfType("text")[i].text])
ThinkingOfBlocks ==
    Concat([i \in 1..Len(BlocksOfType("thinking")) |-> BlocksOfType("thinking")[i].thinking])
ToolUses == BlocksOfType("tool_use")

\* C19: in a non-streaming answer the content is the texts of the text blocks joined
\* in their order; the tool_calls are the tool_use blocks in their order, each with
\* its id, its name and an arguments string that parses back to the block's input
\* (an empty object when it has none); and with at least one tool_use block and no
\* text the content is null, not an empty string.
C19_WholeMessage ==
    (Answered /\ Has(upstreamMessage, "content")) =>
        /\ TextOfBlocks # <<>> => AnsweredMessage.content = Str(TextOfBlocks)
        /\ Has(AnsweredMessage, "tool_calls") <=> ToolUses # <<>>
        /\ ToolUses # <<>> =>
              /\ Len(AnsweredMessage.tool_calls) = Len(ToolUses)
              /\ \A i \in 1..Len(ToolUses) :
                    LET call == AnsweredMessage.tool_calls[i]
                        parsed == JSONparse(call.function.arguments)
                    IN  /\ call.id = ToolUses[i].id
                        /\ call.type = "function"
                        /\ call.function.name = ToolUses[i].name
                        /\ parsed.ok
                        /\ parsed.value = IF Has(ToolUses[i], "input") THEN ToolUses[i].input
                                          ELSE EmptyObj
        /\ (ToolUses # <<>> /\ TextOfBlocks = <<>>) => AnsweredMessage.content = Null

\* C19 witness: a message of two tool_use blocks and no text was answered whole
C19_Witness ==
    /\ Answered
    /\ Len(contentOf(upstreamMessage)) = 2
    /\ Len(ToolUses) = 2
    /\ ToolUses[1].id # ToolUses[2].id
    /\ Len(AnsweredMessage.tool_calls) = 2
    /\ AnsweredMessage.content = Null

IsThinkingDelta(e) ==
    /\ e.type = "content_block_delta"
    /\ e.delta.type = "thinking_delta"
    /\ e.delta.thinking # <<>>

\* C20: thinking text never gets into the content.  In a stream each thinking_delta
\* with text yields one chunk whose delta has reasoning_content with that text and
\* no other field, and the content fields of all chunks together hold the text
\* deltas only; in a non-streaming answer the content holds the texts of the text
\* blocks only, and the thinking text is in _thinking and reasoning_content only.
C20_ThinkingApart ==
    /\ \A i \in 1..Len(fed) :
          IsThinkingDelta(fed[i]) =>
              /\ perEvent[i] = 1
              /\ Delta(ChunksOf(i)[1]) = [reasoning_content |-> fed[i].delta.thinking]
    /\ ContentsOf(events) =
          Concat([i \in 1..Len(fed) |->
                     IF fed[i].type = "content_block_delta" /\ fed[i].delta.type = "text_delta"
                     THEN fed[i].delta.text ELSE <<>>])
    /\ (Answered /\ Has(upstreamMessage, "content")) =>
          /\ AnsweredMessage.content.v = TextOfBlocks
          /\ IF ThinkingOfBlocks # <<>>
             THEN /\ Has(AnsweredMessage, "_thinking")
                  /\ Has(AnsweredMessage, "reasoning_content")
                  /\ AnsweredMessage._thinking = ThinkingOfBlocks
                  /\ AnsweredMessage.reasoning_content = ThinkingOfBlocks
             ELSE DOMAIN AnsweredMessage \subseteq {"role", "content", "tool_calls"}

\* C20 witness: a message of a thinking block and a text block was streamed to its
\* end: a role chunk, a reasoning chunk, a content chunk
C20_Witness ==
    /\ contentOf(upstreamMessage) = <<ThinkingBlock(<<"h">>), TextBlock(<<"a">>)>>
    /\ MessageEnded
    /\ \E i \in 1..Len(fed) : IsThinkingDelta(fed[i])
    /\ \E i \in 1..Len(events) : Delta(events[i]) = [reasoning_content |-> <<"h">>]
    /\ ContentsOf(events) = <<"a">>

(***************************************************************************)
(* SpecMsg: the usage of a non-streaming answer                            *)
(***************************************************************************)
UpstreamUsage == IF Has(upstreamMessage, "usage") THEN upstreamMessage.usage ELSE EmptyObj
Reported(key) == IF Has(UpstreamUsage, key) THEN UpstreamUsage[key] ELSE 0
AnsweredUsage == openaiResponse[1].usage
TokenTotals ==
    /\ AnsweredUsage.prompt_tokens = Reported("input_tokens")
    /\ AnsweredUsage.completion_tokens = Reported("output_tokens")
    /\ AnsweredUsage.total_tokens = Reported("input_tokens") + Reported("output_tokens")
CacheDetails ==
    /\ Has(AnsweredUsage, "prompt_tokens_details")
    /\ AnsweredUsage.prompt_tokens_details =
          [cached_tokens |-> Reported("cache_read_input_tokens")]

\* C21 as stated: in a non-streaming answer prompt_tokens and completion_tokens are
\* the upstream input and output counts (0 when absent), total_tokens is their sum,
\* and prompt_tokens_details is present, carrying the cache-read count, exactly when
\* the upstream usage has a cache-read or a cache-creation count.
C21_Original ==
    Answered =>
        /\ TokenTotals
        /\ IF \/ Has(UpstreamUsage, "cache_read_input_tokens")
              \/ Has(UpstreamUsage, "cache_creation_input_tokens")
           THEN CacheDetails
           ELSE ~Has(AnsweredUsage, "prompt_tokens_details")

\* C21: in a non-streaming answer prompt_tokens and completion_tokens are the
\* upstream input and output counts (0 when absent), total_tokens is their sum, and
\* prompt_tokens_details is present, carrying the cache-read count, exactly when the
\* upstream usage has a cache-read or a cache-creation count other than zero.
C21_Usage ==
    Answered =>
        /\ TokenTotals
        /\ DOMAIN AnsweredUsage \subseteq
              {"prompt_tokens", "completion_tokens", "total_tokens", "prompt_tokens_details"}
        /\ IF \/ Reported("cache_read_input_tokens") # 0
              \/ Reported("cache_creation_input_tokens") # 0
           THEN CacheDetails
           ELSE ~Has(AnsweredUsage, "prompt_tokens_details")

\* C21 witness: the upstream reported a cache-creation count and no cache-read
\* count, and the answer carries the details with a cache-read count of 0
C21_Witness ==
    /\ Answered
    /\ Has(UpstreamUsage, "cache_creation_input_tokens")
    /\ ~Has(UpstreamUsage, "cache_read_input_tokens")
    /\ AnsweredUsage.total_tokens = 3
    /\ AnsweredUsage.prompt_tokens_details = [cached_tokens |-> 0]

(***************************************************************************)
(* SpecPar: one call of convertOpenAIToAnthropic on a request with one     *)
(* user message, over the parameters of the request                        *)
(***************************************************************************)
RequestedModels ==
    {<<>>, RequestModel, DefaultModel,
     <<"g", "p", "t", "-", "4", "o">>,
     <<"G", "P", "T", "-", "4">>,
     <<"c", "l", "a", "u", "d", "e">>,
     <<"c", "l", "a", "u", "d", "e", "-", "o", "p", "u", "s", "-", "4", "-", "5", "-", "t", "h", "i", "n", "k", "i", "n", "g">>,
     <<"x", "-">> \o Thinking \o <<"-", "y">>,
     <<"T", "h", "i", "n", "k", "i", "n", "g">>,
     <<"t", "h", "i", "n", "k">>}
ModelParams == {EmptyObj} \cup {[model |-> m] : m \in RequestedModels}
MaxTokensParams == {EmptyObj} \cup {[max_tokens |-> n] : n \in {0, 1, 5, 40000}}
MaxCompletionTokensParams ==
    {EmptyObj} \cup {[max_completion_tokens |-> n] : n \in {0, 7, 32001}}
StreamParams == {EmptyObj} \cup {[stream |-> b] : b \in BOOLEAN}
\* temperature and top_p in tenths
TemperatureParams == {EmptyObj} \cup {[temperature |-> t] : t \in {0 - 5, 0, 7, 10, 15, 20, 25}}
TopPParams == {EmptyObj} \cup {[top_p |-> p] : p \in {0, 9, 20}}
FunctionChoice(name) == Obj([type |-> "function", function |-> [name |-> name]])
ToolChoices ==
    {Str(<<"none">>), Str(<<"auto">>), Str(<<"required">>), Str(<<"any">>), Str(<<>>),
     FunctionChoice(<<"f">>), FunctionChoice(<<>>),
     Obj([type |-> "function"]),
     Obj([type |-> "tool", function |-> [name |-> <<"f">>]]),
     Obj([function |-> [name |-> <<"f">>]]),
     Arr(<<>>), Null}
ToolChoiceParams == {EmptyObj} \cup {[tool_choice |-> c] : c \in ToolChoices}
ToolsParams ==
    {EmptyObj, [tools |-> Arr(<<>>)],
     [tools |-> Arr(<<[type |-> "function", function |-> [name |-> <<"f">>]]>>)]}
StopParams == {EmptyObj, [stop |-> Str(<<"s">>)], [stop |-> Arr(<<<<"s">>, <<"t">>>>)]}
\* the requests: every model with every token bound, and every sampling parameter
\* with every tool choice
ParamRequests ==
    {[messages |-> Arr(<<UserHello>>)] @@ m @@ t @@ c @@ st :
        m \in ModelParams, t \in MaxTokensParams, c \in MaxCompletionTokensParams,
        st \in StreamParams}
    \cup
    {[messages |-> Arr(<<UserHello>>), model |-> RequestModel] @@ te @@ tp @@ tc @@ to @@ sp :
        te \in TemperatureParams, tp \in TopPParams, tc \in ToolChoiceParams,
        to \in ToolsParams, sp \in StopParams}

InitPar ==
    /\ openaiRequest \in ParamRequests
    /\ reqNow = 1
    /\ anthropicRequest = <<>>
    /\ CvtIdle
    /\ SrvIdle
    /\ MsgIdle
    /\ PairIdle
    /\ GateIdle
    /\ ModelsIdle

SpecPar == InitPar /\ [][NextReq]_vars

\* C22: when the request names a model, the model of the upstream request is that
\* name, character for character.
C22_ModelVerbatim ==
    (Translated /\ TruthyStr(openaiRequest, "model")) => Result.model = openaiRequest.model

\* C22 witness: a request for gpt-4o was translated and asks the upstream for gpt-4o
C22_Witness ==
    /\ Translated
    /\ Has(openaiRequest, "model")
    /\ openaiRequest.model = <<"g", "p", "t", "-", "4", "o">>
    /\ Result.model = <<"g", "p", "t", "-", "4", "o">>

(***************************************************************************)
(* SpecAsst: one call of convertOpenAIToAnthropic on a short message list  *)
(* drawn from the shapes an assistant message can take                     *)
(***************************************************************************)
MaxAsstMsgs == 2    \* longest message list of a request of SpecAsst

ToolResultMsg == [role |-> "tool", tool_call_id |-> <<"t", "1">>, content |-> Str(<<"r">>)]
AsstShapes ==
    {[content |-> Str(<<"a">>)],
     [content |-> Str(<<>>)],
     [content |-> Null],
     [content |-> Arr(<<>>)],
     [content |-> Arr(<<TextPart(<<"a">>)>>)],
     [content |-> Arr(<<TextPart(<<"a">>), TextPart(<<"b">>)>>)],
     [content |-> Str(<<>>), tool_calls |-> <<>>],
     [content |-> Null, tool_calls |-> <<ToolCall(<<"t", "1">>, <<"f">>, GoodArgs)>>],
     [content |-> Null, tool_calls |-> <<ToolCall(<<"t", "1">>, <<"f">>, BadArgs)>>],
     [content |-> Str(<<"a">>),
      tool_calls |-> <<ToolCall(<<"t", "1">>, <<"f">>, BadArgs),
                       ToolCall(<<"t", "2">>, <<"g">>, <<"{", "}">>)>>],
     [content |-> Null, function_call |-> [name |-> <<"f">>, arguments |-> GoodArgs]],
     [content |-> Str(<<"a">>), function_call |-> [name |-> <<"f">>, arguments |-> BadArgs]],
     [content |-> Null,
      tool_calls |-> <<ToolCall(<<"t", "1">>, <<"f">>, GoodArgs)>>,
      function_call |-> [name |-> <<"g">>, arguments |-> BadArgs]]}
AsstMessages == {[role |-> "assistant"] @@ shape : shape \in AsstShapes}
AsstLists ==
    UNION {[1..n -> AsstMessages \cup {UserHello, ToolResultMsg}] : n \in 0..MaxAsstMsgs}

InitAsst ==
    /\ openaiRequest \in {[model |-> RequestModel, messages |-> Arr(ms)] : ms \in AsstLists}
    /\ reqNow \in 1..MaxClock
    /\ anthropicRequest = <<>>
    /\ CvtIdle
    /\ SrvIdle
    /\ MsgIdle
    /\ PairIdle
    /\ GateIdle
    /\ ModelsIdle

SpecAsst == InitAsst /\ [][NextReq]_vars

AssistantIn == SelectSeq(Input, LAMBDA msg : msg.role = "assistant")
AssistantOut == SelectSeq(Result.messages, LAMBDA msg : msg.role = "assistant")
\* the texts of the text blocks an assistant message results in
TextsOf(msg) ==
    IF ~Truthy(msg.content) THEN <<>>
    ELSE IF IsString(msg.content) THEN <<msg.content.v>>
    ELSE LET texts == SelectSeq(msg.content.v, LAMBDA part : part.type = "text")
         IN  [i \in 1..Len(texts) |-> texts[i].text]
\* the number of tool-use blocks an assistant message results in
ToolUseCount(msg) ==
    (IF Has(msg, "tool_calls") THEN Len(msg.tool_calls) ELSE 0)
        + (IF Has(msg, "function_call") THEN 1 ELSE 0)
IsBlockList(content, msg) ==
    /\ IsArray(content)
    /\ Len(content.v) = Len(TextsOf(msg)) + ToolUseCount(msg)
    /\ \A i \in 1..Len(content.v) :
          IF i <= Len(TextsOf(msg))
          THEN content.v[i] = [type |-> "text", text |-> TextsOf(msg)[i]]
          ELSE content.v[i].type = "tool_use"
OneToolCallNoText(content, msg) ==
    (TextsOf(msg) = <<>> /\ Has(msg, "tool_calls") /\ Len(msg.tool_calls) = 1
        /\ ~Has(msg, "function_call")
        /\ JSONparse(msg.tool_calls[1].function.arguments).ok) =>
            content = Arr(<<[type |-> "tool_use",
                             id |-> msg.tool_calls[1].id,
                             name |-> msg.tool_calls[1].function.name,
                             input |-> JSONparse(msg.tool_calls[1].function.arguments).value]>>)

\* C23 as stated: an assistant message becomes a bare string when exactly one text
\* block and no tool-use block results, and the block list in every other case; with
\* one tool call and no text the list holds that tool_use block alone, with the
\* parsed arguments.
C23_Original ==
    Translated =>
        /\ Len(AssistantOut) = Len(AssistantIn)
        /\ \A k \in 1..Len(AssistantIn) :
              LET msg == AssistantIn[k]
                  content == AssistantOut[k].content
              IN  /\ IF Len(TextsOf(msg)) = 1 /\ ToolUseCount(msg) = 0
                     THEN content = Str(TextsOf(msg)[1])
                     ELSE IsBlockList(content, msg)
                  /\ OneToolCallNoText(content, msg)

\* C23: an assistant message becomes a bare string when exactly one text block and
\* no tool-use block results, the empty string when no block results at all, and the
\* block list in every other case; with one tool call and no text the list holds
\* that tool_use block alone, with the parsed arguments.
C23_AssistantContent ==
    Translated =>
        /\ Len(AssistantOut) = Len(AssistantIn)
        /\ \A k \in 1..Len(AssistantIn) :
              LET msg == AssistantIn[k]
                  content == AssistantOut[k].content
              IN  /\ IF Len(TextsOf(msg)) = 1 /\ ToolUseCount(msg) = 0
                     THEN content = Str(TextsOf(msg)[1])
                     ELSE IF Len(TextsOf(msg)) = 0 /\ ToolUseCount(msg) = 0
                     THEN content = Str(<<>>)
                     ELSE IsBlockList(content, msg)
                  /\ OneToolCallNoText(content, msg)

\* C23 witness: a one-part text array became a bare string, and a message with one
\* tool call and no text became a list of one tool_use block
C23_Witness ==
    /\ Translated
    /\ Len(Input) = 2
    /\ Input[1] = [role |-> "assistant", content |-> Arr(<<TextPart(<<"a">>)>>)]
    /\ Input[2].role = "assistant" /\ Input[2].content = Null
    /\ Has(Input[2], "tool_calls") /\ ~Has(Input[2], "function_call")
    /\ Result.messages[1].content = Str(<<"a">>)
    /\ Result.messages[2].content =
          Arr(<<[type |-> "tool_use", id |-> <<"t", "1">>, name |-> <<"f">>,
                 input |-> [q |-> <<"x">>]]>>)

\* a valid argument string no request of the model carries, and what it parses to
RepairArgs == <<"{", "\"", "z", "\"", ":", "\"", "z", "\"", "}">>
RepairInput == [z |-> <<"z">>]
RepairCall(fn) ==
    IF Has(fn, "arguments") /\ ~JSONparse(fn.arguments).ok
    THEN [fn EXCEPT !.arguments = RepairArgs]
    ELSE fn
\* the message with every invalid argument string replaced by the valid one
Repaired(msg) ==
    LET m1 == IF Has(msg, "tool_calls")
              THEN [msg EXCEPT !.tool_calls =
                       [i \in 1..Len(msg.tool_calls) |->
                           [msg.tool_calls[i] EXCEPT !.function = RepairCall(@)]]]
              ELSE msg
    IN  IF Has(m1, "function_call")
        THEN [m1 EXCEPT !.function_call = RepairCall(@)]
        ELSE m1
HasInvalidArgs(msg) == Repaired(msg) # msg
\* a translated message with the input of the valid string replaced by the wrapped
\* invalid one
Rewrapped(message) ==
    IF IsArray(message.content)
    THEN [message EXCEPT !.content =
             Arr([i \in 1..Len(message.content.v) |->
                     LET block == message.content.v[i]
                     IN  IF block.type = "tool_use" /\ block.input = RepairInput
                         THEN [block EXCEPT !.input = [raw |-> BadArgs]]
                         ELSE block])]
    ELSE message

\* C24: a tool-call argument string that is not valid JSON does not fail the
\* translation: its tool_use block gets the input {raw: <the string>}, and everything
\* else of the upstream request is what it would be had the string been valid.
C24_InvalidArgumentsWrapped ==
    Translated =>
        LET valid == convertOpenAIToAnthropic(
                         [openaiRequest EXCEPT !.messages =
                             Arr([i \in 1..Len(Input) |-> Repaired(Input[i])])], reqNow)
        IN  /\ Result = [valid EXCEPT !.messages =
                            [i \in 1..Len(valid.messages) |-> Rewrapped(valid.messages[i])]]
            /\ \A i \in 1..Len(Result.messages) :
                  IsArray(Result.messages[i].content) =>
                      \A j \in 1..Len(Result.messages[i].content.v) :
                          LET block == Result.messages[i].content.v[j]
                          IN  block.type = "tool_use" => block.input # RepairInput

\* C24 witness: an assistant message with a text, a call with an invalid argument
\* string and a call with a valid one, followed by a tool result
C24_Witness ==
    /\ Translated
    /\ Len(Input) = 2
    /\ HasInvalidArgs(Input[1]) /\ Has(Input[1], "tool_calls") /\ Len(Input[1].tool_calls) = 2
    /\ Input[2] = ToolResultMsg
    /\ Len(Result.messages) = 2
    /\ Result.messages[1].content.v =
          <<[type |-> "text", text |-> <<"a">>],
            [type |-> "tool_use", id |-> <<"t", "1">>, name |-> <<"f">>,
             input |-> [raw |-> BadArgs]],
            [type |-> "tool_use", id |-> <<"t", "2">>, name |-> <<"g">>, input |-> EmptyObj]>>
    /\ HoldsToolResult(Result.messages[2])

(***************************************************************************)
(* SpecReq: the system prompt and the tool results                         *)
(***************************************************************************)
BlankLine == <<"\n", "\n">>
SystemIn == SelectSeq(Input, LAMBDA msg : msg.role = "system")
\* the system messages whose content is a string or an array
SystemWithContent ==
    SelectSeq(SystemIn, LAMBDA msg : IsString(msg.content) \/ IsArray(msg.content))
RECURSIVE FromFirstNonEmpty(_)
FromFirstNonEmpty(texts) ==
    IF texts = <<>> \/ Head(texts) # <<>> THEN texts ELSE FromFirstNonEmpty(Tail(texts))
NoSystemRoleUpstream ==
    \A i \in 1..Len(Result.messages) : Result.messages[i].role \in {"user", "assistant"}

\* C25 as stated: the upstream system prompt is the contents of all system-role
\* messages, in input order, joined by a blank line, and no upstream message has the
\* system role.
C25_Original ==
    Translated =>
        /\ LET joined == Join([i \in 1..Len(SystemIn) |-> SystemText(SystemIn[i])], BlankLine)
           IN  IF Has(Result, "system") THEN Result.system = joined ELSE joined = <<>>
        /\ NoSystemRoleUpstream

\* C25: the upstream system prompt is the contents of the system-role messages that
\* have a string or an array content, in input order from the first non-empty one
\* on, joined by a blank line (the content of an array being its text parts joined
\* by a newline); it is absent when that is empty; and no upstream message has the
\* system role.
C25_SystemPrompt ==
    Translated =>
        /\ LET texts == [i \in 1..Len(SystemWithContent) |-> SystemText(SystemWithContent[i])]
               joined == Join(FromFirstNonEmpty(texts), BlankLine)
           IN  IF Has(Result, "system") THEN Result.system = joined ELSE joined = <<>>
        /\ NoSystemRoleUpstream

\* C25 witness: two system messages with text, a string and an array, around a user
\* message
C25_Witness ==
    /\ Translated
    /\ Len(Input) = 3
    /\ Input[1].role = "system" /\ Input[1].content = Str(<<"s">>)
    /\ Input[2].role = "user"
    /\ Input[3].role = "system" /\ IsArray(Input[3].content)
    /\ Result.system = <<"s", "\n", "\n", "b">>
    /\ Len(Result.messages) = 1

ToolResultsIn == SelectSeq(Input, LAMBDA msg : msg.role \in {"tool", "function"})
ToolResultsOf(message) ==
    IF IsArray(message.content)
    THEN SelectSeq(message.content.v, LAMBDA block : block.type = "tool_result")
    ELSE <<>>
\* the tool_result blocks of the upstream message list, in order
ToolResultsOut ==
    Concat([i \in 1..Len(Result.messages) |-> ToolResultsOf(Result.messages[i])])
ToolUseIdOf(msg) == IF msg.role = "tool" THEN msg.tool_call_id ELSE msg.name

\* C26 as stated: every tool-role or function-role message gives exactly one
\* tool_result block upstream, tagged with its tool_call_id (its name for the function
\* role), in the order of the input; it is the last block of the preceding upstream
\* message when that message is user-role, whatever its content, and otherwise the
\* only block of a new user-role message.
C26_Original ==
    Translated =>
        /\ Len(ToolResultsOut) = Len(ToolResultsIn)
        /\ \A k \in 1..Len(ToolResultsIn) :
              ToolResultsOut[k].tool_use_id = ToolUseIdOf(ToolResultsIn[k])
        /\ (Len(Input) > 0 /\ Last(Input).role \in {"tool", "function"}) =>
              LET before == convertMessages(Front(Input), reqNow).messages
              IN  IF before # <<>> /\ Last(before).role = "user"
                  THEN /\ Len(Result.messages) = Len(before)
                       /\ Front(Result.messages) = Front(before)
                       /\ Last(Result.messages).role = "user"
                       /\ IsArray(Last(Result.messages).content)
                       /\ Last(Last(Result.messages).content.v).type = "tool_result"
                  ELSE /\ Len(Result.messages) = Len(before) + 1
                       /\ Last(Result.messages).role = "user"
                       /\ Len(ToolResultsOf(Last(Result.messages))) = 1

(***************************************************************************)
(* SpecSrv: the end-of-stream marker and the order of the frames           *)
(***************************************************************************)
DoneFrames == {i \in 1..Len(written) : written[i] = DoneFrame}

\* C27 as stated: a streaming exchange whose upstream body was read to its end wrote
\* the [DONE] frame exactly once, also when the upstream sent message_stop and then
\* closed.
C27_Original ==
    (Streaming /\ upstreamStatus = 200 /\ pc = "returned" /\ ended) =>
        Cardinality(DoneFrames) = 1

\* the positions of the data lines read so far whose event is terminated by a blank
\* line that was read too
TerminatedData ==
    {i \in 1..(Len(consumed) - 2) :
        consumed[i].tok = "data" /\ consumed[i + 1] = NL /\ consumed[i + 2] = NL}
RECURSIVE InOrder(_)
\* the members of a set of numbers as an increasing sequence
InOrder(S) == IF S = {} THEN <<>> ELSE <<Min(S)>> \o InOrder(S \ {Min(S)})
\* the terminated events with valid JSON data, in arrival order
ArrivedEvents ==
    LET valid == InOrder({i \in TerminatedData : consumed[i].payload.kind = "json"})
    IN  [k \in 1..Len(valid) |-> consumed[valid[k]].payload.event]
ChunkFramesWritten ==
    LET frames == SelectSeq(written, IsChunkFrame)
    IN  [k \in 1..Len(frames) |-> frames[k].json]
InvalidDataRead == \E i \in TerminatedData : consumed[i].payload.kind = "invalid"

\* C28: the chunks written to the client are those of the upstream events that are
\* terminated by a blank line and carry valid JSON, each translated once, in arrival
\* order, event after event; an event whose data is not valid JSON adds no frame and
\* leaves the stream open for the events after it.
C28_EventsInOrder ==
    (Streaming /\ upstreamStatus = 200) =>
        LET translated == runAlone(ArrivedEvents, EmptyObj, <<>>,
                                   [randomHex |-> DrawnHex, seconds |-> DrawnSeconds])
        IN  /\ ChunkFramesWritten = translated.events
            /\ ArrivedEvents # <<>> => streamState = translated.state
            /\ pc = "read" =>
                  /\ ~ended
                  /\ \A i \in 1..Len(written) : ~IsErrorFrame(written[i])
                  /\ Len(written) = Len(ChunkFramesWritten)
                        + Cardinality({k \in 1..Len(ArrivedEvents) :
                                          ArrivedEvents[k].type = "message_stop"})

\* C28 witness: an event with invalid data was read, then a text delta, whose chunk
\* is the only frame written, and the stream is still being read
C28_Witness ==
    /\ Streaming
    /\ pc = "read"
    /\ Len(consumed) = 8
    /\ consumed[1] = BadDataLine
    /\ consumed[6] = DataLine(TextDelta(<<"a">>))
    /\ Len(written) = 1
    /\ ContentOf(written[1].json) = <<"a">>

(***************************************************************************)
(* SpecCvt: the tool call an argument fragment belongs to                  *)
(***************************************************************************)
\* the tool_use start or content_block_stop closest before the i-th event, 0 if none
LastMarkBefore(i) ==
    LET marks == {j \in 1..(i - 1) : IsToolStart(fed[j]) \/ fed[j].type = "content_block_stop"}
    IN  IF marks = {} THEN 0 ELSE Max(marks)
FragmentChunks ==
    {i \in 1..Len(events) :
        Has(Delta(events[i]), "tool_calls") /\ ~Has(Delta(events[i]).tool_calls[1], "id")}

\* C29: a non-empty argument fragment that arrives after a tool_use block start, with
\* no content_block_stop in between, returns one chunk at the index that start was
\* given, carrying the fragment alone, whatever other events came in between (the
\* start of a text block among them); every other fragment returns no chunk, so no
\* fragment is emitted at the index of a tool call whose block has stopped.
C29_FragmentIndex ==
    /\ \A i \in 1..Len(fed) :
          IsArgumentFragment(fed[i]) =>
              IF LastMarkBefore(i) # 0 /\ IsToolStart(fed[LastMarkBefore(i)])
              THEN /\ perEvent[i] = 1
                   /\ Delta(ChunksOf(i)[1]) =
                         [tool_calls |->
                             <<[index |-> ToolStartsBefore(LastMarkBefore(i)),
                                function |-> [arguments |-> fed[i].delta.partial_json]]>>]
              ELSE perEvent[i] = 0
    /\ Cardinality(FragmentChunks) =
          Cardinality({i \in 1..Len(fed) :
                          /\ IsArgumentFragment(fed[i])
                          /\ LastMarkBefore(i) # 0
                          /\ IsToolStart(fed[LastMarkBefore(i)])})

\* C29 witness: a tool_use block started, a text block started, and the fragment that
\* followed was emitted at index 0
C29_Witness ==
    /\ Len(fed) = 3
    /\ IsToolStart(fed[1])
    /\ fed[2] = [type |-> "content_block_start", content_block |-> [type |-> "text"]]
    /\ IsArgumentFragment(fed[3])
    /\ perEvent[3] = 1
    /\ Delta(ChunksOf(3)[1]).tool_calls[1].index = 0

(***************************************************************************)
(* SpecMsg: the end of a streamed message                                  *)
(***************************************************************************)
\* the message_delta events that carry a stop reason and a usage
FullMessageDeltas ==
    {i \in 1..Len(fed) :
        /\ fed[i].type = "message_delta"
        /\ Has(fed[i].delta, "stop_reason")
        /\ Has(fed[i], "usage")}
UsageOfEvent(e) ==
    LET in == IF Has(e.usage, "input_tokens") THEN e.usage.input_tokens ELSE 0
        out == IF Has(e.usage, "output_tokens") THEN e.usage.output_tokens ELSE 0
    IN  [prompt_tokens |-> in, completion_tokens |-> out, total_tokens |-> in + out]

\* C30: a message_delta with a stop reason and a usage returns two chunks: first the
\* chunk with an empty delta and the finish reason the stop reason maps to, without
\* usage; then a chunk with no choices whose usage holds the upstream input and output
\* counts and their sum; and that usage is what the state holds afterwards.
C30_StopThenUsage ==
    \A i \in FullMessageDeltas :
        /\ perEvent[i] = 2
        /\ LET terminal == ChunksOf(i)[1]
               trailing == ChunksOf(i)[2]
           IN  /\ Len(terminal.choices) = 1
               /\ Delta(terminal) = EmptyObj
               /\ FinishReasonOf(terminal) = mapFinishReason(fed[i].delta.stop_reason)
               /\ FinishReasonOf(terminal) # JSNull
               /\ ~HasUsage(terminal)
               /\ trailing.choices = <<>>
               /\ HasUsage(trailing)
               /\ trailing.usage = UsageOfEvent(fed[i])
               /\ (\A j \in (i + 1)..Len(fed) : ~Has(fed[j], "usage")) =>
                     Has(state, "usage") /\ state.usage = trailing.usage

\* C30 witness: a streamed message ended with max_tokens and the scenario's usage
C30_Witness ==
    /\ MessageEnded
    /\ FullMessageDeltas # {}
    /\ Has(upstreamMessage, "stop_reason") /\ upstreamMessage.stop_reason = "max_tokens"
    /\ Len(events) >= 2
    /\ FinishReasonOf(events[Len(events) - 1]) = "length"
    /\ events[Len(events)].usage =
          [prompt_tokens |-> 10, completion_tokens |-> 5, total_tokens |-> 15]
    /\ state.usage = events[Len(events)].usage

(***************************************************************************)
(* SpecCvt: the events that return no chunk                                *)
(***************************************************************************)
\* content_block_stop, message_stop, error, and content_block_start of a non-tool block
IsQuietEvent(e) ==
    \/ e.type \in {"content_block_stop", "message_stop", "error"}
    \/ e.type = "content_block_start" /\ ~IsToolStart(e)
\* a field of the state object, <<>> when the object has no such key
Field(st, key) == IF Has(st, key) THEN <<st[key]>> ELSE <<>>
\* the step is a convertStreamEvent call on one of those events
QuietStep == Len(fed') = Len(fed) + 1 /\ IsQuietEvent(fed'[Len(fed')])
QuietStepKeeps ==
    /\ perEvent'[Len(perEvent')] = 0
    /\ events' = events
    /\ fed'[Len(fed')].type = "content_block_stop" =>
          Has(state', "currentToolCall") /\ state'.currentToolCall = <<>>
    /\ ToolCallCounter(state') = ToolCallCounter(state)
    /\ Field(state', "toolCallIndex") = Field(state, "toolCallIndex")
    /\ Field(state', "usage") = Field(state, "usage")

\* C31 as stated: content_block_stop, message_stop, error and content_block_start of a
\* non-tool block return no chunk, content_block_stop clears the open-tool-call marker,
\* and the call leaves the tool-call counter, the response identifier, the creation
\* timestamp and the stored usage of the state as they were.
C31_Original ==
    [][QuietStep =>
          /\ QuietStepKeeps
          /\ Field(state', "responseId") = Field(state, "responseId")
          /\ Field(state', "created") = Field(state, "created")]_vars

\* C31 amended: the same, except that the response identifier and the creation
\* timestamp are left as they were only when the state already holds them: on a state
\* without them (the first event of a stream) the call stores a new identifier and a
\* new timestamp, whatever the event.
C31_QuietEvents ==
    [][QuietStep =>
          /\ QuietStepKeeps
          /\ Has(state', "responseId") /\ Has(state', "created")
          /\ Has(state, "responseId") => state'.responseId = state.responseId
          /\ Has(state, "created") => state'.created = state.created]_vars

\* C31 witness: a tool call was opened and its usage-carrying message ended, then a
\* content_block_stop returned nothing and cleared the marker, counter and usage kept
C31_Witness ==
    /\ Len(fed) = 3
    /\ IsToolStart(fed[1])
    /\ fed[2].type = "message_delta" /\ Has(fed[2], "usage")
    /\ fed[3].type = "content_block_stop"
    /\ perEvent[3] = 0
    /\ state.currentToolCall = <<>>
    /\ state.toolCallIndex = 1
    /\ Has(state, "usage")

(***************************************************************************)
(* SpecReq: the roles and the order of the upstream messages               *)
(***************************************************************************)
KnownRoles == {"system", "user", "assistant", "tool", "function"}
Conversational(messages) == SelectSeq(messages, LAMBDA m : m.role \in {"user", "assistant"})
\* an upstream user message made only of tool results: the one lines 73-77 and 99-103
\* insert (no user message of the input converts to an array of tool results)
IsSynthetic(message) ==
    /\ message.role = "user"
    /\ IsArray(message.content)
    /\ message.content.v # <<>>
    /\ \A i \in 1..Len(message.content.v) : message.content.v[i].type = "tool_result"
\* the content of an upstream message without the tool results appended to it, a user
\* string being the one text block that lines 67-68 make of it
OwnContent(message) ==
    IF IsArray(message.content)
    THEN Arr(SelectSeq(message.content.v, LAMBDA b : b.type # "tool_result"))
    ELSE IF IsString(message.content) /\ message.role = "user"
    THEN Arr(<<[type |-> "text", text |-> message.content.v]>>)
    ELSE message.content
OwnMessages(messages) ==
    LET kept == SelectSeq(messages, LAMBDA m : ~IsSynthetic(m))
    IN  [i \in 1..Len(kept) |-> [role |-> kept[i].role, content |-> OwnContent(kept[i])]]
\* each user and assistant message of the input converted on its own, in input order
ConvertedAlone ==
    LET ua == Conversational(Input)
    IN  [i \in 1..Len(ua) |->
            [role |-> ua[i].role,
             content |-> IF ua[i].role = "user"
                         THEN convertUserContent(ua[i].content)
                         ELSE convertAssistantContent(ua[i], reqNow)]]
Without(seq, i) == SubSeq(seq, 1, i - 1) \o SubSeq(seq, i + 1, Len(seq))

\* C32: every upstream message has role user or assistant; the upstream messages other
\* than the inserted tool-result carriers are, in order and one for one, the converted
\* user and assistant messages of the input (tool results appended to them apart); and
\* the translation of a request equals the translation of the same request with any
\* one message of an unknown role removed.
C32_RolesAndOrder ==
    Translated =>
        /\ \A i \in 1..Len(Result.messages) : Result.messages[i].role \in {"user", "assistant"}
        /\ OwnMessages(Result.messages) = OwnMessages(ConvertedAlone)
        /\ \A i \in 1..Len(Input) :
              Input[i].role \notin KnownRoles =>
                  Result = convertOpenAIToAnthropic(
                               [openaiRequest EXCEPT !.messages = Arr(Without(Input, i))],
                               reqNow)

\* C32 witness: a user message, a message of an unknown role and an assistant message
\* gave the two upstream messages user, assistant
C32_Witness ==
    /\ Translated
    /\ Len(Input) = 3
    /\ Input[1].role = "user" /\ Input[2].role \notin KnownRoles
    /\ Input[3].role = "assistant"
    /\ Len(Result.messages) = 2
    /\ Result.messages[1].role = "user" /\ Result.messages[2].role = "assistant"

(***************************************************************************)
(* SpecPar: the token bound, the reasoning budget, sampling, tool choice   *)
(***************************************************************************)
Supplied(key) == Has(openaiRequest, key)

\* C33 as stated: the upstream token bound is max_completion_tokens when the request
\* has one, otherwise max_tokens when the request has one, otherwise 4096.
C33_Original ==
    Translated =>
        Result.max_tokens =
            IF Supplied("max_completion_tokens") THEN openaiRequest.max_completion_tokens
            ELSE IF Supplied("max_tokens") THEN openaiRequest.max_tokens
            ELSE 4096

\* C33 amended: the upstream token bound is max_completion_tokens when the request has
\* one that is not 0, otherwise max_tokens when the request has one that is not 0,
\* otherwise 4096.
C33_TokenBound ==
    Translated =>
        Result.max_tokens =
            IF Supplied("max_completion_tokens") /\ openaiRequest.max_completion_tokens # 0
            THEN openaiRequest.max_completion_tokens
            ELSE IF Supplied("max_tokens") /\ openaiRequest.max_tokens # 0
            THEN openaiRequest.max_tokens
            ELSE 4096

\* C33 witness: both bounds were supplied and the completion-specific one went upstream
C33_Witness ==
    /\ Translated
    /\ Supplied("max_completion_tokens") /\ openaiRequest.max_completion_tokens = 7
    /\ Supplied("max_tokens") /\ openaiRequest.max_tokens = 5
    /\ Result.max_tokens = 7

ContainsThinking(model) ==
    \E before, after \in 0..Len(model) :
        /\ before + 8 + after = Len(model)
        /\ SubSeq(model, before + 1, before + 8) = <<"t", "h", "i", "n", "k", "i", "n", "g">>

\* C34: when the model of the upstream request contains 'thinking', the request carries
\* an enabled reasoning budget of min(16000, floor(token bound / 2)) tokens, which is
\* less than the token bound; otherwise the request carries no thinking field.
C34_ReasoningBudget ==
    Translated =>
        IF ContainsThinking(Result.model)
        THEN /\ Has(Result, "thinking")
             /\ Result.thinking.type = "enabled"
             /\ Result.thinking.budget_tokens = Min({16000, Result.max_tokens \div 2})
             /\ Result.thinking.budget_tokens < Result.max_tokens
        ELSE ~Has(Result, "thinking")

\* C34 witness: a thinking model with a token bound of 40000 got the ceiling as budget
C34_Witness ==
    /\ Translated
    /\ ContainsThinking(Result.model)
    /\ Result.max_tokens = 40000
    /\ Result.thinking.budget_tokens = 16000

\* C35: a supplied temperature goes upstream as max(0, min(1, temperature)), which lies
\* between 0 and 1; a supplied top_p goes upstream as it is; a field that is not
\* supplied is not in the upstream request.  (Tenths: 10 is 1.)
C35_Sampling ==
    Translated =>
        /\ IF Supplied("temperature")
           THEN /\ Has(Result, "temperature")
                /\ Result.temperature \in 0..10
                /\ Result.temperature = Max({0, Min({10, openaiRequest.temperature})})
           ELSE ~Has(Result, "temperature")
        /\ IF Supplied("top_p")
           THEN Has(Result, "top_p") /\ Result.top_p = openaiRequest.top_p
           ELSE ~Has(Result, "top_p")

\* C35 witness: temperature 1.5 went upstream as 1, top_p 2.0 as 2.0
C35_Witness ==
    /\ Translated
    /\ Supplied("temperature") /\ openaiRequest.temperature = 15
    /\ Supplied("top_p") /\ openaiRequest.top_p = 20
    /\ Result.temperature = 10
    /\ Result.top_p = 20

\* the directive the translation table gives a tool_choice value
NamesFunction(choice) ==
    /\ choice.t = "object"
    /\ Has(choice.v[1], "type") /\ choice.v[1].type = "function"
    /\ Has(choice.v[1], "function") /\ Has(choice.v[1].function, "name")
    /\ choice.v[1].function.name # <<>>
TableToolChoice(choice) ==
    IF choice = Str(<<"none">>) THEN [type |-> "none"]
    ELSE IF choice = Str(<<"required">>) THEN [type |-> "any"]
    ELSE IF NamesFunction(choice)
    THEN [type |-> "tool", name |-> choice.v[1].function.name]
    ELSE [type |-> "auto"]
\* the empty string and null
FalsyChoice(choice) == choice = Str(<<>>) \/ choice = Null

\* C36 as stated: a supplied tool_choice goes upstream as none, auto, any for the
\* strings none, auto, required, as auto for every other string, as the forced
\* single-tool directive for an object of type function that names a function, and as
\* auto for any other value.
C36_Original ==
    (Translated /\ Supplied("tool_choice")) =>
        /\ Has(Result, "tool_choice")
        /\ Result.tool_choice = TableToolChoice(openaiRequest.tool_choice)

\* C36 amended: the same for every supplied value other than the empty string and
\* null; for those two, as for a request without tool_choice, the upstream request
\* carries no tool_choice.
C36_ToolChoice ==
    Translated =>
        IF Supplied("tool_choice") /\ ~FalsyChoice(openaiRequest.tool_choice)
        THEN /\ Has(Result, "tool_choice")
             /\ Result.tool_choice = TableToolChoice(openaiRequest.tool_choice)
        ELSE ~Has(Result, "tool_choice")

\* C36 witness: a tool_choice naming function f went upstream as the directive for f
C36_Witness ==
    /\ Translated
    /\ Supplied("tool_choice")
    /\ openaiRequest.tool_choice = FunctionChoice(<<"f">>)
    /\ Result.tool_choice = [type |-> "tool", name |-> <<"f">>]

(***************************************************************************)
(* SpecGate: the API-key gate                                              *)
(***************************************************************************)
KeyConfigured == Has(config, "apiKey") /\ config.apiKey # <<>>
\* the key a request presents: what follows 'Bearer ' in its authorization header
\* when the header starts so, else its x-api-key header; <<>> when it presents none
PresentedKey ==
    IF Has(req.headers, "authorization")
       /\ Len(req.headers.authorization) >= 7
       /\ SubSeq(req.headers.authorization, 1, 7) = <<"B", "e", "a", "r", "e", "r", " ">>
    THEN SubSeq(req.headers.authorization, 8, Len(req.headers.authorization))
    ELSE IF Has(req.headers, "x-api-key") THEN req.headers["x-api-key"]
    ELSE <<>>
Unauthorized ==
    /\ statusCode = 401
    /\ jsonBody = <<[error |-> [message |-> <<"Invalid or missing API key">>,
                                type |-> "authentication_error",
                                param |-> JSNull, code |-> JSNull]]>>
    /\ ended

\* C37: with an API key configured, a request whose presented key is missing or is
\* not the configured key never reaches a route handler and causes no upstream
\* request: the middleware answers it 401 with the authentication_error envelope.
\* With no key configured no request is answered 401: each reaches its handler.
C37_KeyGate ==
    req # EmptyObj =>
        /\ (KeyConfigured /\ PresentedKey # config.apiKey) =>
              /\ pc \in {"idle", "returned"}
              /\ pc = "returned" => Unauthorized
              /\ NoUpstreamRequest
        /\ (~KeyConfigured /\ pc # "idle") =>
              \/ pc = "route"
              \/ pc = "returned" /\ statusCode = 501

\* C37 witness: with key k configured, a request with Bearer token x and x-api-key k
\* was answered 401
C37_Witness ==
    /\ req # EmptyObj
    /\ KeyConfigured
    /\ Has(req.headers, "authorization") /\ req.headers.authorization = Bearer \o <<"x">>
    /\ Has(req.headers, "x-api-key") /\ req.headers["x-api-key"] = config.apiKey
    /\ pc = "returned"
    /\ Unauthorized

(***************************************************************************)
(* SpecModels: requests to GET /v1/models (server.js lines 119-171), which *)
(* pass the middleware (no API key configured).  A handler reads the clock *)
(* and the cache when its request arrives, and either answers from the     *)
(* cache or calls fetch and waits; while it waits the clock advances and   *)
(* other requests arrive.                                                  *)
(***************************************************************************)
MaxModelRequests == 3   \* requests to GET /v1/models
MaxTicks == 2           \* advances of the clock

\* config.js lines 26-27, in milliseconds
modelsCacheTtl == 5 * 60 * 1000
\* by how much the clock advances between two steps
TickSteps == {1, modelsCacheTtl - 1}
\* what upstreamResponse.json() answers
UpstreamModelLists ==
    {[data |-> <<[id |-> <<"a">>], [id |-> <<"b">>]>>],
     [object |-> "list"]}
\* error.message when fetch rejects and when the answer is not ok (line 139)
ModelsFailures == {FetchFailed, UpstreamErrorText(503)}
IdleHandler == [pc |-> "idle", now |-> 0, statusCode |-> 0, jsonBody |-> <<>>]

InitModels ==
    /\ ReqIdle
    /\ CvtIdle
    /\ SrvIdle
    /\ MsgIdle
    /\ PairIdle
    /\ GateIdle
    /\ modelsCache = [data |-> <<>>, timestamp |-> 0]
    /\ clock = 1
    /\ ticks = 0
    /\ handlers = [r \in 1..MaxModelRequests |-> IdleHandler]
    /\ upstreamCalls = 0
    /\ lastFetch = <<>>

\* line 125: modelsCache.data && (now - modelsCache.timestamp < config.modelsCacheTtl)
cacheFresh(cache, now) == cache.data # <<>> /\ now - cache.timestamp < modelsCacheTtl

\* lines 144-157: the list built from the upstream's answer
openaiModelsOf(anthropicModels, now) ==
    [object |-> "list",
     data |-> IF Has(anthropicModels, "data")
              THEN [i \in 1..Len(anthropicModels.data) |->
                       [id |-> anthropicModels.data[i].id, object |-> "model",
                        created |-> now \div 1000, owned_by |-> "antigravity"]]
              ELSE <<>>]

\* lines 121-136: the request arrives; the handler answers from the cache or calls fetch
GetModels(r) ==
    /\ handlers[r].pc = "idle"
    /\ IF r = 1 THEN TRUE ELSE handlers[r - 1].pc # "idle"
    /\ LET now == clock IN
       IF cacheFresh(modelsCache, now)
       THEN /\ handlers' = [handlers EXCEPT ![r] =
                               [pc |-> "done", now |-> now, statusCode |-> 200,
                                jsonBody |-> modelsCache.data]]
            /\ UNCHANGED upstreamCalls
       ELSE /\ handlers' = [handlers EXCEPT ![r] = [@ EXCEPT !.pc = "fetch", !.now = now]]
            /\ upstreamCalls' = upstreamCalls + 1
    /\ UNCHANGED <<modelsCache, clock, ticks, lastFetch>>
    /\ UNCHANGED <<reqVars, cvtVars, srvVars, msgVars, pairVars, gateVars>>

\* the catch block also resetting the cache
ModelsFetchFails_CacheReset(r) ==
    /\ handlers[r].pc = "fetch"
    /\ \E message \in ModelsFailures :
          handlers' = [handlers EXCEPT ![r] =
                          [@ EXCEPT !.pc = "done", !.statusCode = 500,
                                    !.jsonBody = <<createErrorResponse(message, "api_error")>>]]
    /\ modelsCache' = [data |-> <<>>, timestamp |-> 0]
    /\ UNCHANGED <<clock, ticks, upstreamCalls, lastFetch>>
    /\ UNCHANGED <<reqVars, cvtVars, srvVars, msgVars, pairVars, gateVars>>

\* lines 138-140 and 166-169: fetch rejects, the answer is not ok, or json() rejects
ModelsFetchFails(r) ==
    /\ handlers[r].pc = "fetch"
    /\ \E message \in ModelsFailures :
          handlers' = [handlers EXCEPT ![r] =
                          [@ EXCEPT !.pc = "done", !.statusCode = 500,
                                    !.jsonBody = <<createErrorResponse(message, "api_error")>>]]
    /\ UNCHANGED <<modelsCache, clock, ticks, upstreamCalls, lastFetch>>
    /\ UNCHANGED <<reqVars, cvtVars, srvVars, msgVars, pairVars, gateVars>>

\* lines 142-165: the upstream answered a list; it is converted, stored and sent
ModelsFetchOk(r) ==
    /\ handlers[r].pc = "fetch"
    /\ \E anthropicModels \in UpstreamModelLists :
          LET openaiModels == openaiModelsOf(anthropicModels, handlers[r].now) IN
          /\ modelsCache' = [data |-> <<openaiModels>>, timestamp |-> handlers[r].now]
          /\ handlers' = [handlers EXCEPT ![r] =
                             [@ EXCEPT !.pc = "done", !.statusCode = 200,
                                       !.jsonBody = <<openaiModels>>]]
          /\ lastFetch' = <<[called |-> handlers[r].now, answered |-> clock,
                             data |-> openaiModels]>>
    /\ UNCHANGED <<clock, ticks, upstreamCalls>>
    /\ UNCHANGED <<reqVars, cvtVars, srvVars, msgVars, pairVars, gateVars>>

\* time passes
Tick ==
    /\ ticks < MaxTicks
    /\ ticks' = ticks + 1
    /\ \E d \in TickSteps : clock' = clock + d
    /\ UNCHANGED <<modelsCache, handlers, upstreamCalls, lastFetch>>
    /\ UNCHANGED <<reqVars, cvtVars, srvVars, msgVars, pairVars, gateVars>>

NextModels ==
    \/ \E r \in 1..MaxModelRequests : GetModels(r)
    \/ \E r \in 1..MaxModelRequests : ModelsFetchOk(r)
    \/ \E r \in 1..MaxModelRequests : ModelsFetchFails(r)
    \/ Tick
SpecModels == InitModels /\ [][NextModels]_vars

Arrives(r) == handlers[r].pc = "idle" /\ handlers'[r].pc # "idle"
FetchEnds(r) == handlers[r].pc = "fetch" /\ handlers'[r].pc = "done"
ApiError(body) ==
    /\ body # <<>>
    /\ DOMAIN body[1] = {"error"}
    /\ body[1].error.type = "api_error"
    /\ body[1].error.param = JSNull /\ body[1].error.code = JSNull

====
